---- MODULE Spec2Model ----
(***************************************************************************)
(* Model of the diagnostics subsystem of recipe2txt:                       *)
(*   recipe2txt/utils/ContextLogger.py  (context-propagating log pipeline) *)
(*   recipe2txt/html2recipe.py          (failure registry and reports)     *)
(*                                                                         *)
(* A Python str that the code formats with % is the sequence of its pieces *)
(* <<first character, piece, ..., piece>>.  A piece is a text without "%", *)
(* or one of "%s" (a conversion), "%%" (an escaped percent sign) and "%"   *)
(* (a percent sign that starts no conversion: the text ends after it or    *)
(* goes on with a character that is no conversion type).                   *)
(* Raw(msg) is the text as written and Format(msg, args) is "msg % args".  *)
(***************************************************************************)
EXTENDS Integers, Sequences, FiniteSets, TLC

\* ------------------------------------------------------------------------
\* Bounds of the model
\* ------------------------------------------------------------------------
MaxRecords == 4
MaxDepth == 2
MaxFailures == 3
MaxExtractions == 2
MaxFrames == 2
MaxStacks == 3
MaxLevelChanges == 2
MaxOutputs == 2
MaxLoggers == 3

\* ------------------------------------------------------------------------
\* Constants of ContextLogger.py
\* ------------------------------------------------------------------------
DEBUG == 10
INFO == 20
WARNING == 30
ERROR == 40
CRITICAL == 50

None == "None"
PyTrue == "True"
PyFalse == "False"

DO_NOT_LOG == <<"T", "HIS MESSAGE SHOULD NOT BE LOGGED">>
DEFAULT_CONTEXT == "default_context"
\* logging.getLogger() and the logger = get_logger(__name__) of a module
root_logger == "root"
logger == "recipe2txt.html2recipe"
linesep == "\n"
EmptyStr == <<"", "">>
EmptyArgs == <<>>
Elems(seq) == {seq[i] : i \in DOMAIN seq}

\* how a call ends: with a value returned or with an exception raised
Returned(v) == [kind |-> "return", value |-> v]
Raised(e) == [kind |-> "raise", exception |-> e]

\* the text a str is written as
RECURSIVE Raw(_)
Raw(msg) == IF msg = <<>> THEN "" ELSE msg[1] \o Raw(Tail(msg))

\* the result r of formatting the rest of a str, with text s before it
Prefixed(s, r) == IF r.kind = "return" THEN Returned(s \o r.value) ELSE r

\* "segs % args", left to right: a conversion takes the next argument
\* (TypeError: not enough arguments), a percent sign that starts no
\* conversion is a ValueError (at the end of the text: incomplete format;
\* before that, the argument is looked up first), and arguments left over at
\* the end are a TypeError (not all arguments converted)
RECURSIVE JoinSegments(_, _)
JoinSegments(segs, args) ==
    IF segs = <<>>
    THEN IF args = <<>> THEN Returned("") ELSE Raised("TypeError")
    ELSE IF segs[1] = "%s"
         THEN IF args = <<>> THEN Raised("TypeError")
              ELSE Prefixed(args[1], JoinSegments(Tail(segs), Tail(args)))
    ELSE IF segs[1] = "%%"
         THEN Prefixed("%", JoinSegments(Tail(segs), args))
    ELSE IF segs[1] = "%"
         THEN IF Len(segs) = 1 THEN Raised("ValueError")
              ELSE IF args = <<>> THEN Raised("TypeError")
              ELSE Raised("ValueError")
    ELSE Prefixed(segs[1], JoinSegments(Tail(segs), args))

\* msg % args
Format(msg, args) == JoinSegments(msg, args)

\* LogRecord.getMessage: the arguments are merged in only if there are any
getMessage(msg, args) == IF args = <<>> THEN Returned(Raw(msg)) ELSE Format(msg, args)

\* str.lower() of one character (ASCII)
Lower(c) ==
    CASE c = "A" -> "a" [] c = "B" -> "b" [] c = "C" -> "c" [] c = "D" -> "d"
      [] c = "E" -> "e" [] c = "F" -> "f" [] c = "G" -> "g" [] c = "H" -> "h"
      [] c = "I" -> "i" [] c = "J" -> "j" [] c = "K" -> "k" [] c = "L" -> "l"
      [] c = "M" -> "m" [] c = "N" -> "n" [] c = "O" -> "o" [] c = "P" -> "p"
      [] c = "Q" -> "q" [] c = "R" -> "r" [] c = "S" -> "s" [] c = "T" -> "t"
      [] c = "U" -> "u" [] c = "V" -> "v" [] c = "W" -> "w" [] c = "X" -> "x"
      [] c = "Y" -> "y" [] c = "Z" -> "z"
      [] OTHER -> c

\* ------------------------------------------------------------------------
\* Inputs
\* ------------------------------------------------------------------------
Task1 == "Task-1"
Task2 == "Task-2"
Units == {DEFAULT_CONTEXT, Task1, Task2}
MsgProcessing == <<"P", "rocessing http://x.test">>
\* f"Processing {string}" for a URL with an escaped blank
MsgPercent == <<"P", "rocessing http://x.test/a", "%", "20b">>
MsgScraping == <<"S", "craping http://y.test">>
MsgFetch == <<"f", "etch failed">>
Thresholds == {DEBUG, ERROR}
RecordLevels == {INFO, ERROR}

VARIABLES
    tasklocal_context,  \* QueueContextFilter.tasklocal_context: unit name -> Context
    log_level,          \* QueueContextFilter.log_level
    stream,             \* what the stream handler has emitted, in order
    logfile,            \* what the file handler has emitted, in order
    blocks,             \* per unit, the QueueContextManager blocks entered and not left
    opens,              \* per unit, number of open-tagged records handled so far
    calls,              \* every logging call made so far: operation, unit, record, result
    created,            \* the name every Context() of the registry was stored under, in order
    logger_list,        \* ContextLogger.logger_list: the names of the loggers, in order
    disabled,           \* the names of the loggers whose attribute disabled is true
    categorized_errors, \* html2recipe.categorized_errors: host -> method -> name -> errors
    handled,            \* every handle_parsing_error call made so far: arguments and result
    reports,            \* what the last errors2str call returned
    outcomes,           \* how every __exit__, set_level, _get_info and html2parsed call
                        \* so far ended
    trace_call,         \* the last call of a traceback utility: arguments and result
    counts              \* the Counts object the run hands to recipe2out

logvars == <<tasklocal_context, stream, logfile, opens, calls, created, logger_list, disabled>>
errvars == <<categorized_errors, handled, reports, counts>>
vars == <<tasklocal_context, log_level, stream, logfile, blocks, opens, calls, created,
          logger_list, disabled, categorized_errors, handled, reports, outcomes, trace_call,
          counts>>

\* ------------------------------------------------------------------------
\* class Context
\* ------------------------------------------------------------------------
NewContext ==
    [context_msg |-> EmptyStr, context_args |-> EmptyArgs, with_context |-> FALSE,
     triggered |-> FALSE, context_id |-> 0, defer_emit |-> FALSE,
     deferred_records |-> <<>>]

\* reset without deferred_records.clear()
reset_no_clear(c) ==
    [c EXCEPT !.context_msg = EmptyStr, !.context_args = EmptyArgs,
              !.with_context = FALSE, !.triggered = FALSE, !.context_id = 0,
              !.defer_emit = FALSE]

\* reset that leaves triggered as it is
reset_keeps_triggered(c) ==
    [c EXCEPT !.context_msg = EmptyStr, !.context_args = EmptyArgs,
              !.with_context = FALSE, !.context_id = 0,
              !.defer_emit = FALSE, !.deferred_records = <<>>]

reset(c) ==
    [c EXCEPT !.context_msg = EmptyStr, !.context_args = EmptyArgs,
              !.with_context = FALSE, !.triggered = FALSE, !.context_id = 0,
              !.defer_emit = FALSE, !.deferred_records = <<>>]

\* Every method returns the Context after the call, the method's return value,
\* the record as annotated, and the records it handed to the stream handler.
dispatch(c, record, level) ==
    LET r == IF record.exc_info # None
             THEN [record EXCEPT !.full_trace = (level <= DEBUG)]
             ELSE record
    IN  IF c.defer_emit
        THEN [ctx |-> [c EXCEPT !.deferred_records = Append(@, r)],
              ret |-> FALSE, record |-> r, flushed |-> <<>>]
        ELSE [ctx |-> c, ret |-> TRUE, record |-> r, flushed |-> <<>>]

\* set_context that does not mark the context as triggered
Context_set_context_untriggered(c, record, level) ==
    LET c1 == [c EXCEPT !.defer_emit = record.defer_emit, !.with_context = TRUE]
    IN  IF level <= record.levelno
        THEN dispatch(c1, record, level)
        ELSE [ctx |-> [c1 EXCEPT !.with_context = TRUE,
                                 !.context_msg = record.msg,
                                 !.context_args = record.args,
                                 !.triggered = FALSE],
              ret |-> FALSE, record |-> record, flushed |-> <<>>]

Context_set_context(c, record, level) ==
    LET c1 == [c EXCEPT !.defer_emit = record.defer_emit, !.with_context = TRUE]
    IN  IF level <= record.levelno
        THEN dispatch([c1 EXCEPT !.triggered = TRUE], record, level)
        ELSE [ctx |-> [c1 EXCEPT !.with_context = TRUE,
                                 !.context_msg = record.msg,
                                 !.context_args = record.args,
                                 !.triggered = FALSE],
              ret |-> FALSE, record |-> record, flushed |-> <<>>]

\* get_stream_handler sets the module's _stream_handler when it builds the filter
stream_handler_configured == TRUE

close_context(c) ==
    [ctx |-> reset(c),
     flushed |-> IF c.with_context /\ c.deferred_records # <<>> /\ stream_handler_configured
                 THEN c.deferred_records
                 ELSE <<>>]

\* annotation that marks every record as inside a context
annotate_always(c, record) ==
    LET r == IF ~c.triggered
             THEN [record EXCEPT !.context_msg = c.context_msg,
                                 !.context_args = c.context_args]
             ELSE record
    IN  [r EXCEPT !.with_context = TRUE]

\* the setattr calls of process on a record that is to be emitted
annotate(c, record) ==
    IF c.with_context
    THEN LET r == IF ~c.triggered
                  THEN [record EXCEPT !.context_msg = c.context_msg,
                                      !.context_args = c.context_args]
                  ELSE record
         IN  [r EXCEPT !.with_context = TRUE]
    ELSE record

\* process that dispatches an ordinary record whatever its level is
process_unfiltered(c, record, level) ==
    IF record.is_context = PyTrue
    THEN Context_set_context(c, record, level)
    ELSE LET cl == IF record.is_context = PyFalse
                   THEN close_context(c)
                   ELSE [ctx |-> c, flushed |-> <<>>]
         IN  IF record.msg = DO_NOT_LOG
             THEN [ctx |-> cl.ctx, ret |-> FALSE, record |-> record, flushed |-> cl.flushed]
             ELSE LET d == dispatch(cl.ctx, annotate(cl.ctx, record), level)
                  IN  [d EXCEPT !.flushed = cl.flushed]

process(c, record, level) ==
    IF record.is_context = PyTrue
    THEN Context_set_context(c, record, level)
    ELSE LET cl == IF record.is_context = PyFalse
                   THEN close_context(c)
                   ELSE [ctx |-> c, flushed |-> <<>>]
         IN  IF record.msg = DO_NOT_LOG
             THEN [ctx |-> cl.ctx, ret |-> FALSE, record |-> record, flushed |-> cl.flushed]
             ELSE IF level <= record.levelno
                  THEN LET d == dispatch(cl.ctx, annotate(cl.ctx, record), level)
                       IN  [d EXCEPT !.flushed = cl.flushed]
                  ELSE [ctx |-> cl.ctx, ret |-> FALSE, record |-> record,
                        flushed |-> cl.flushed]

\* ------------------------------------------------------------------------
\* class QueueContextFilter
\* ------------------------------------------------------------------------
\* one context for every unit: the task is not looked up
task_name_shared(u) == DEFAULT_CONTEXT

\* asyncio.current_task(): the running task's name, DEFAULT_CONTEXT outside a task
task_name(u) == u

\* get_context that stores a new Context on every call
get_context_replacing(registry, u) ==
    [context |-> NewContext, is_new |-> TRUE,
     registry |-> [n \in DOMAIN registry \cup {task_name(u)} |->
                      IF n = task_name(u) THEN NewContext ELSE registry[n]]]

\* is_new tells whether the call constructed the Context it returns
get_context(registry, u) ==
    IF task_name(u) \in DOMAIN registry
    THEN [context |-> registry[task_name(u)], registry |-> registry, is_new |-> FALSE]
    ELSE [context |-> NewContext, is_new |-> TRUE,
          registry |-> [n \in DOMAIN registry \cup {task_name(u)} |->
                           IF n = task_name(u) THEN NewContext ELSE registry[n]]]

\* the Context objects are numbered in the order of their construction: the
\* one stored under name is the latest constructed for it
ContextOf(made, name) ==
    LET S == {i \in DOMAIN made : made[i] = name}
    IN  IF S = {} THEN 0 ELSE CHOOSE i \in S : \A j \in S : j <= i

\* ------------------------------------------------------------------------
\* Formatting (the stream handler's QueueContextFormatter)
\* ------------------------------------------------------------------------
WHILE == <<"W", "hile ", "%s", ":" \o linesep \o "\t">>

\* WHILE % (msg[0].lower() + msg[1:]), then % args: the pieces of msg take the
\* place of the conversion of WHILE, and the whole is formatted with args
format_context(msg, args) ==
    IF Raw(msg) = "" THEN Raised("IndexError")
    ELSE Format(SubSeq(WHILE, 1, 2) \o <<Lower(msg[1])>> \o Tail(msg)
                    \o SubSeq(WHILE, 4, Len(WHILE)), args)

\* set_context: the value of record.ctx, or the exception of format_context
set_context(record) ==
    IF record.with_context
    THEN IF Raw(record.context_msg) # ""
         THEN format_context(record.context_msg, record.context_args)
         ELSE Returned("\t")
    ELSE Returned("")

\* QueueContextFormatter.format: the line "%(ctx)s%(message)s" with the
\* exception, if any; set_context comes first, getMessage second
QueueContextFormatter_format(record) ==
    IF set_context(record).kind = "raise" THEN set_context(record)
    ELSE IF getMessage(record.msg, record.args).kind = "raise"
         THEN getMessage(record.msg, record.args)
    ELSE Returned([id |-> record.id, ctx |-> set_context(record).value,
                   message |-> getMessage(record.msg, record.args).value,
                   levelno |-> record.levelno, exc_info |-> record.exc_info,
                   full_trace |-> record.full_trace, unit |-> record.unit,
                   cid |-> record.cid])

\* StreamHandler.emit: the lines written; an exception of format goes to
\* Handler.handleError and the record writes nothing
StreamEmit(record) ==
    IF QueueContextFormatter_format(record).kind = "return"
    THEN <<QueueContextFormatter_format(record).value>> ELSE <<>>

RECURSIVE StreamEmitAll(_)
StreamEmitAll(records) ==
    IF records = <<>> THEN <<>>
    ELSE StreamEmit(Head(records)) \o StreamEmitAll(Tail(records))

\* a file filter that also drops what is below the default stream threshold
EndContextFilter_filter_leveled(record) ==
    record.msg # DO_NOT_LOG /\ record.levelno >= WARNING

\* class EndContextFilter
EndContextFilter_filter(record) == record.msg # DO_NOT_LOG

\* FileHandler.emit with the plain Formatter: the lines written; an exception
\* of getMessage goes to Handler.handleError and the record writes nothing
FileEmit(record) ==
    IF getMessage(record.msg, record.args).kind = "return"
    THEN <<[id |-> record.id, levelno |-> record.levelno,
            message |-> getMessage(record.msg, record.args).value,
            exc_info |-> record.exc_info, unit |-> record.unit]>>
    ELSE <<>>

\* ------------------------------------------------------------------------
\* A logging call: Logger.handle runs the file handler, then the stream handler.
\* The logging state L holds tasklocal_context, stream, logfile, opens, calls,
\* created, logger_list, disabled.
\* ------------------------------------------------------------------------
LogState ==
    [tasklocal_context |-> tasklocal_context, stream |-> stream, logfile |-> logfile,
     opens |-> opens, calls |-> calls, created |-> created, logger_list |-> logger_list,
     disabled |-> disabled]

\* what a call passes to logger.<level>(msg, *args, exc_info=, extra=); name
\* is the name of the logger, which Handle fills in
Call(levelno, msg, args, exc, is_context, defer) ==
    [name |-> "", levelno |-> levelno, msg |-> msg, args |-> args, exc_info |-> exc,
     is_context |-> is_context, defer_emit |-> defer]

\* the LogRecord of a call; unit and cid tell where the record was produced:
\* the unit, and the number of the unit's context it belongs to (0: none)
MakeRecord(L, u, c) ==
    [id |-> Len(L.calls) + 1, name |-> c.name, levelno |-> c.levelno, msg |-> c.msg,
     args |-> c.args,
     exc_info |-> c.exc_info, is_context |-> c.is_context, defer_emit |-> c.defer_emit,
     context_msg |-> EmptyStr, context_args |-> EmptyArgs, with_context |-> FALSE,
     full_trace |-> FALSE, unit |-> u,
     cid |-> IF c.is_context = PyTrue THEN L.opens[u] + 1
             ELSE IF c.is_context = None /\ task_name(u) \in DOMAIN L.tasklocal_context
                     /\ L.tasklocal_context[task_name(u)].with_context
                  THEN L.opens[u] ELSE 0]

\* Logger.callHandlers: the record goes up to the handlers of the root logger,
\* the file handler and the stream handler with its filter; no logger on the
\* way is asked whether it is disabled
callHandlers(L, level, op, u, c) ==
    LET record == MakeRecord(L, u, c)
        g == get_context(L.tasklocal_context, u)
        p == process(g.context, record, level)
        made == IF g.is_new THEN Append(L.created, task_name(u)) ELSE L.created
    IN  [tasklocal_context |-> [g.registry EXCEPT ![task_name(u)] = p.ctx],
         stream |-> L.stream \o StreamEmitAll(p.flushed)
                             \o (IF p.ret THEN StreamEmit(p.record) ELSE <<>>),
         logfile |-> IF EndContextFilter_filter(record)
                     THEN L.logfile \o FileEmit(record)
                     ELSE L.logfile,
         opens |-> IF c.is_context = PyTrue
                   THEN [L.opens EXCEPT ![u] = @ + 1] ELSE L.opens,
         calls |-> Append(L.calls, [op |-> op, unit |-> u, record |-> record,
                                    ret |-> p.ret, flushed |-> Len(p.flushed),
                                    level |-> level, dropped |-> FALSE,
                                    context |-> ContextOf(made, task_name(u))]),
         created |-> made, logger_list |-> L.logger_list, disabled |-> L.disabled]

\* a disabled logger makes no record: no handler and no filter sees the call
Dropped(L, level, op, u, c) ==
    [L EXCEPT !.calls = Append(@, [op |-> op, unit |-> u, record |-> MakeRecord(L, u, c),
                                   ret |-> FALSE, flushed |-> 0, level |-> level,
                                   dropped |-> TRUE, context |-> 0])]

\* a logging call by unit u on the logger called name: Logger.handle looks at
\* the attribute disabled of that logger only
Handle(L, name, level, op, u, c) ==
    IF name \in L.disabled
    THEN Dropped(L, level, op, u, [c EXCEPT !.name = name])
    ELSE callHandlers(L, level, op, u, [c EXCEPT !.name = name])

SetLogState(L) ==
    /\ tasklocal_context' = L.tasklocal_context
    /\ stream' = L.stream
    /\ logfile' = L.logfile
    /\ opens' = L.opens
    /\ calls' = L.calls
    /\ created' = L.created
    /\ logger_list' = L.logger_list
    /\ disabled' = L.disabled

\* logging.getLogger(name).<level>(msg): an ordinary record
Log(name, u, levelno, msg) ==
    /\ Len(calls) < MaxRecords
    /\ SetLogState(Handle(LogState, name, log_level, "log", u,
                          Call(levelno, msg, EmptyArgs, None, None, FALSE)))
    /\ UNCHANGED <<log_level, blocks, errvars, outcomes, trace_call>>

\* QueueContextManager.__enter__
Enter(u, levelno, msg, defer) ==
    /\ Len(calls) < MaxRecords
    /\ Len(blocks[u]) < MaxDepth
    /\ SetLogState(Handle(LogState, logger, log_level, "enter", u,
                          Call(levelno, msg, EmptyArgs, None, PyTrue, defer)))
    /\ blocks' = [blocks EXCEPT ![u] = Append(@, msg)]
    /\ UNCHANGED <<log_level, errvars, outcomes, trace_call>>

\* the logging state after get_context has answered g to unit u
Registered(L, g, u) ==
    [L EXCEPT !.tasklocal_context = g.registry,
              !.created = IF g.is_new THEN Append(@, task_name(u)) ELSE @]

\* set_level that does not look at the context
set_level_unguarded(L, level, u, new_level) ==
    [L |-> Registered(L, get_context(L.tasklocal_context, u), u),
     log_level |-> new_level, ret |-> new_level]

\* QueueContextFilter.set_level: logging.error goes to the root logger, whose
\* handlers are the ones of every other record
set_level(L, level, u, new_level) ==
    IF get_context(L.tasklocal_context, u).context.with_context
    THEN [L |-> Handle(Registered(L, get_context(L.tasklocal_context, u), u),
                       root_logger, level,
                       "log", u,
                       Call(ERROR,
                            <<"M", "odifying logging-level during context is not possible">>,
                            EmptyArgs, None, None, FALSE)),
          log_level |-> level, ret |-> level]
    ELSE [L |-> Registered(L, get_context(L.tasklocal_context, u), u),
          log_level |-> new_level, ret |-> new_level]

\* the set_level calls among the outcomes
LevelChanges == {i \in DOMAIN outcomes : outcomes[i].op = "set_level"}

\* the state after a set_level call that answered r
LevelSet(r, u, new_level) ==
    /\ SetLogState(r.L)
    /\ log_level' = r.log_level
    /\ outcomes' = Append(outcomes,
                          [op |-> "set_level", unit |-> u, log_level |-> new_level,
                           before |-> log_level, ret |-> r.ret, raised |-> None])

\* a call of set_level by unit u
SetLevel(u, new_level) ==
    /\ Cardinality(LevelChanges) < MaxLevelChanges
    /\ Len(calls) + Cardinality(LevelChanges) < MaxRecords
    /\ LevelSet(set_level(LogState, log_level, u, new_level), u, new_level)
    /\ UNCHANGED <<blocks, errvars, trace_call>>

\* get_logger(name): the logger is appended to logger_list, once more if it
\* is already there; logging.getLogger does not touch its attribute disabled
GetLogger(name) ==
    /\ Len(logger_list) < MaxLoggers
    /\ logger_list' = Append(logger_list, name)
    /\ UNCHANGED <<tasklocal_context, stream, logfile, opens, calls, created, disabled,
                   log_level, blocks, errvars, outcomes, trace_call>>

\* disable_loggers(): the loggers that are in logger_list at the call
DisableLoggers ==
    /\ disabled' = disabled \cup Elems(logger_list)
    /\ UNCHANGED <<tasklocal_context, stream, logfile, opens, calls, created, logger_list,
                   log_level, blocks, errvars, outcomes, trace_call>>

\* enable_loggers()
EnableLoggers ==
    /\ disabled' = disabled \ Elems(logger_list)
    /\ UNCHANGED <<tasklocal_context, stream, logfile, opens, calls, created, logger_list,
                   log_level, blocks, errvars, outcomes, trace_call>>

\* what a suppress_logging block leaves on the stack of blocks of its unit
SUPPRESS == <<"suppress_logging">>

\* the with blocks entered and not left that are suppress_logging blocks
Suppressing == {u \in Units : \E i \in DOMAIN blocks[u] : blocks[u][i] = SUPPRESS}

\* with suppress_logging(): the generator runs disable_loggers() up to its yield
SuppressEnter(u) ==
    /\ Len(blocks[u]) < MaxDepth
    /\ disabled' = disabled \cup Elems(logger_list)
    /\ blocks' = [blocks EXCEPT ![u] = Append(@, SUPPRESS)]
    /\ UNCHANGED <<tasklocal_context, stream, logfile, opens, calls, created, logger_list,
                   log_level, errvars, outcomes, trace_call>>

\* the disabled loggers after the generator was resumed at its yield:
\* next() runs on to enable_loggers(), throw() raises at the yield, which no
\* try statement encloses, and the generator ends there
after_yield(flags, loggers, exc_type) ==
    IF exc_type = None THEN flags \ Elems(loggers) ELSE flags

\* leaving the suppress_logging block of unit u; the exception goes on to the caller
SuppressExit(u, exc_type) ==
    /\ blocks[u] # <<>>
    /\ blocks[u][Len(blocks[u])] = SUPPRESS
    /\ Len(outcomes) < MaxRecords
    /\ disabled' = after_yield(disabled, logger_list, exc_type)
    /\ blocks' = [blocks EXCEPT ![u] = SubSeq(@, 1, Len(@) - 1)]
    /\ outcomes' = Append(outcomes,
                          [op |-> "suppress_logging", unit |-> u, exc_type |-> exc_type,
                           ret |-> FALSE, raised |-> exc_type])
    /\ UNCHANGED <<tasklocal_context, stream, logfile, opens, calls, created, logger_list,
                   log_level, errvars, trace_call>>

\* f"Leaving context '{self.msg % self.args}' because of exception {exc_type}: {exc_value}":
\* the str, or the exception of self.msg % self.args.  f"{exc_type}" is the
\* repr of the class, or of None.  The str is one piece: it is logged without
\* arguments and never formatted again.
LeavingMsg(msg, args, exc_type, exc_value) ==
    IF Format(msg, args).kind = "raise" THEN Format(msg, args)
    ELSE Returned(<<"L", "eaving context '" \o Format(msg, args).value
                             \o "' because of exception "
                             \o (IF exc_type = None THEN "None"
                                 ELSE "<class '" \o exc_type \o "'>")
                             \o ": " \o exc_value>>)

\* QueueContextManager.__exit__: the logging call it makes (logs: whether it
\* makes one), what it returns, and the exception it raises itself, if any
__exit__(msg, args, exc_type, exc_value, traceback) ==
    IF exc_type = None /\ exc_value = None /\ traceback = None
    THEN [call |-> Call(DEBUG, DO_NOT_LOG, EmptyArgs, None, PyFalse, FALSE),
          logs |-> TRUE, ret |-> FALSE, raised |-> None]
    ELSE IF LeavingMsg(msg, args, exc_type, exc_value).kind = "raise"
    THEN [call |-> Call(ERROR, EmptyStr, EmptyArgs, None, PyFalse, FALSE),
          logs |-> FALSE, ret |-> FALSE,
          raised |-> LeavingMsg(msg, args, exc_type, exc_value).exception]
    ELSE [call |-> Call(ERROR, LeavingMsg(msg, args, exc_type, exc_value).value,
                        EmptyArgs, None, PyFalse, FALSE),
          logs |-> TRUE, ret |-> FALSE, raised |-> None]

\* Leaving the with block of unit u; the blocks are entered without arguments
\* and an exception comes with its traceback.  The exception that left the
\* block goes on to the caller unless __exit__ returned true; an exception
\* of __exit__ itself takes its place.
Exit(u, op, exc_type, exc_value) ==
    /\ Len(calls) < MaxRecords
    /\ blocks[u] # <<>>
    /\ blocks[u][Len(blocks[u])] # SUPPRESS
    /\ LET x == __exit__(blocks[u][Len(blocks[u])], EmptyArgs, exc_type, exc_value,
                         IF exc_type = None THEN None ELSE "traceback")
       IN  /\ SetLogState(IF x.logs THEN Handle(LogState, logger, log_level, op, u, x.call)
                          ELSE LogState)
           /\ outcomes' = Append(outcomes,
                                 [op |-> "__exit__", unit |-> u, exc_type |-> exc_type,
                                  ret |-> x.ret,
                                  raised |-> IF x.raised # None THEN x.raised
                                             ELSE IF x.ret THEN None ELSE exc_type])
    /\ blocks' = [blocks EXCEPT ![u] = SubSeq(@, 1, Len(@) - 1)]
    /\ UNCHANGED <<log_level, errvars, trace_call>>

\* the block ends without an exception
ExitNormal(u) == Exit(u, "exit", None, None)

\* an exception leaves the block
ExitException(u, exc_type, exc_value) == Exit(u, "exit_exc", exc_type, exc_value)

\* ------------------------------------------------------------------------
\* html2recipe.py: the failure registry and the reports
\* ------------------------------------------------------------------------
\* A str that the code splits at "." is the sequence of its labels.  A URL is
\* [scheme, userinfo, netloc, port, rest]: the user information before "@"
\* ("" for none), the labels of the host as written, each the sequence of its
\* characters, the port after ":" ("" for none), and the labels of what
\* follows (of the whole text when the URL has no host).
UrlA1 == [scheme |-> "https", userinfo |-> "",
          netloc |-> <<<<"w", "w", "w">>, <<"a">>, <<"c", "o", "m">>>>,
          port |-> "", rest |-> <<"/1">>]
UrlA2 == [scheme |-> "https", userinfo |-> "",
          netloc |-> <<<<"W", "W", "W">>, <<"A">>, <<"c", "o", "m">>>>,
          port |-> "", rest |-> <<"/2">>]
UrlB == [scheme |-> "https", userinfo |-> "user",
         netloc |-> <<<<"a">>, <<"C", "o", "m">>>>,
         port |-> "8080", rest |-> <<"/3">>]
UrlRaw == [scheme |-> "", userinfo |-> "", netloc |-> <<>>, port |-> "",
           rest |-> <<"nourl">>]
URLs == {UrlA1, UrlA2, UrlB, UrlRaw}

\* An exception is [name, stack]: the name of its class and the names of the
\* functions of its traceback, outermost first.  Error(name) is the exception
\* of the class that the scraper raises.
Error(name) ==
    [name |-> name,
     stack |-> CASE name = "TypeError" -> <<"scrape_html", "parse", "ingredients">>
                 [] name \in {"KeyError", "SchemaOrgException"} ->
                        <<"scrape_html", "parse", "schema">>
                 [] name = "ValueError" -> <<"scrape_html", "parse", "yields">>
                 [] name = "AttributeError" -> <<"scrape_html", "parse", "soup">>
                 [] name = "NotImplementedError" -> <<"scrape_html", "parse">>
                 [] OTHER -> <<"scrape_html">>]
Exceptions == {Error("TypeError"), Error("KeyError")}
StepNames == {None, "ingredients"}

\* sep.join(parts)
RECURSIVE JoinWith(_, _)
JoinWith(parts, sep) ==
    IF parts = <<>> THEN ""
    ELSE IF Len(parts) = 1 THEN parts[1]
    ELSE parts[1] \o sep \o JoinWith(Tail(parts), sep)

\* the labels of the URL's text
UrlLabels(url) ==
    LET before == url.scheme \o "://"
                      \o (IF url.userinfo = "" THEN "" ELSE url.userinfo \o "@")
        after == IF url.port = "" THEN "" ELSE ":" \o url.port
        host == [i \in DOMAIN url.netloc |-> JoinWith(url.netloc[i], "")]
    IN  IF host = <<>> THEN url.rest
        ELSE IF Len(host) = 1
             THEN <<before \o host[1] \o after \o url.rest[1]>> \o Tail(url.rest)
             ELSE <<before \o host[1]>> \o SubSeq(host, 2, Len(host) - 1)
                      \o <<host[Len(host)] \o after \o url.rest[1]>> \o Tail(url.rest)

UrlText(url) == JoinWith(UrlLabels(url), ".")

\* urllib.parse.urlparse(url).hostname: the host without user information and
\* port, in lower case; <<>> for None
hostname(url) ==
    [i \in DOMAIN url.netloc |->
        JoinWith([j \in DOMAIN url.netloc[i] |-> Lower(url.netloc[i][j])], "")]

\* A dict is the sequence of its items [key, val] in insertion order.
DictHas(d, k) == \E i \in DOMAIN d : d[i].key = k
DictGet(d, k) == d[CHOOSE i \in DOMAIN d : d[i].key = k].val
\* an assignment that moves the key to the end of the dict
DictSet_reinserting(d, k, v) ==
    SelectSeq(d, LAMBDA item : item.key # k) \o <<[key |-> k, val |-> v]>>

\* d[k] = v: a key the dict has keeps its place
DictSet(d, k, v) ==
    IF DictHas(d, k)
    THEN [i \in DOMAIN d |-> IF d[i].key = k THEN [key |-> k, val |-> v] ELSE d[i]]
    ELSE Append(d, [key |-> k, val |-> v])

ParsingError(url, exception) == [url |-> url, traceback |-> exception.stack]

GENERAL_PARSING_ERROR == "general parsing error"
NoLog == 0

\* lines 137-146: the insertion into categorized_errors
\* insertion that does not look at the exception's name
insert_error_ignoring_kind(reg, host, method, exception_name, parsing_error) ==
    IF DictHas(reg, host)
    THEN IF DictHas(DictGet(reg, host), method)
         THEN LET kinds == DictGet(DictGet(reg, host), method)
                  first == kinds[1].key
              IN  DictSet(reg, host,
                      DictSet(DictGet(reg, host), method,
                          DictSet(kinds, first,
                                  Append(DictGet(kinds, first), parsing_error))))
         ELSE DictSet(reg, host,
                  DictSet(DictGet(reg, host), method,
                      <<[key |-> exception_name, val |-> <<parsing_error>>]>>))
    ELSE DictSet(reg, host,
             <<[key |-> method,
                val |-> <<[key |-> exception_name, val |-> <<parsing_error>>]>>]>>)

\* insertion that starts the bucket's list anew
insert_error_replacing(reg, host, method, exception_name, parsing_error) ==
    IF DictHas(reg, host)
    THEN DictSet(reg, host,
             DictSet(DictGet(reg, host), method,
                 DictSet(IF DictHas(DictGet(reg, host), method)
                         THEN DictGet(DictGet(reg, host), method) ELSE <<>>,
                         exception_name, <<parsing_error>>)))
    ELSE DictSet(reg, host,
             <<[key |-> method,
                val |-> <<[key |-> exception_name, val |-> <<parsing_error>>]>>]>>)

insert_error(reg, host, method, exception_name, parsing_error) ==
    IF DictHas(reg, host)
    THEN IF DictHas(DictGet(reg, host), method)
         THEN IF DictHas(DictGet(DictGet(reg, host), method), exception_name)
              THEN DictSet(reg, host,
                       DictSet(DictGet(reg, host), method,
                           DictSet(DictGet(DictGet(reg, host), method), exception_name,
                               Append(DictGet(DictGet(DictGet(reg, host), method),
                                              exception_name),
                                      parsing_error))))
              ELSE DictSet(reg, host,
                       DictSet(DictGet(reg, host), method,
                           DictSet(DictGet(DictGet(reg, host), method), exception_name,
                                   <<parsing_error>>)))
         ELSE DictSet(reg, host,
                  DictSet(DictGet(reg, host), method,
                      <<[key |-> exception_name, val |-> <<parsing_error>>]>>))
    ELSE DictSet(reg, host,
             <<[key |-> method,
                val |-> <<[key |-> exception_name, val |-> <<parsing_error>>]>>]>>)

\* log is the level of the logging function passed, NoLog for None
handle_parsing_error(L, level, reg, u, url, exception, method, log, save_error) ==
    LET exception_name == exception.name
        lg == IF log # NoLog THEN log ELSE ERROR
        L1 == IF method # None /\ method # ""
              THEN Handle(L, logger, level, "log", u,
                          Call(lg, <<"N", "o ", "%s", " found: ">>, <<method>>,
                               exception_name, None, FALSE))
              ELSE Handle(L, logger, level, "log", u,
                          Call(lg, <<"P", "arsing error: ">>, EmptyArgs,
                               exception_name, None, FALSE))
        parsing_error == ParsingError(url, exception)
        method2 == IF method # None /\ method # "" THEN method
                   ELSE GENERAL_PARSING_ERROR
        host == hostname(url)
        L2 == IF host = <<>>
              THEN Handle(L1, logger, level, "log", u,
                          Call(WARNING, <<"C", "ould not extract host from ", "%s", " ">>,
                               <<UrlText(url)>>, None, None, FALSE))
              ELSE L1
        host2 == IF host = <<>> THEN UrlLabels(url) ELSE host
    IN  IF ~save_error
        THEN [L |-> L1, reg |-> reg, ret |-> <<>>]
        ELSE [L |-> L2,
              reg |-> insert_error(reg, host2, method2, exception_name, parsing_error),
              ret |-> <<parsing_error>>]

\* ------------------------------------------------------------------------
\* The traceback utilities errors2str calls (recipe2txt.utils.traceback_utils)
\* ------------------------------------------------------------------------
\* A frame of a traceback.StackSummary; a file name is the sequence of the
\* components of its path.  The stacks are those of GenTraces: every frame is
\* of the generated file test/testfiles/permanent/gen_stack.py.
GenStackPath == <<"home", "u", "test", "testfiles", "permanent", "gen_stack.py">>
Frame(lineno) == [filename |-> GenStackPath, lineno |-> lineno, name |-> "main"]
Frames == {Frame(1), Frame(2)}

\* the sequences over S of a length from lo to hi
SeqsOf(S, lo, hi) == UNION {[1..n -> S] : n \in lo..hi}
Stacks == SeqsOf(Frames, 0, MaxFrames)
TbExLists == SeqsOf(Stacks, 2, MaxStacks)

NoTraceCall == [op |-> "none"]

\* the comparison of the first two stacks only
RECURSIVE shared_from_first_two(_, _)
shared_from_first_two(stacks, i) ==
    IF /\ \A k \in {1, 2} : i <= Len(stacks[k])
       /\ stacks[2][i] = stacks[1][i]
    THEN <<stacks[1][i]>> \o shared_from_first_two(stacks, i + 1)
    ELSE <<>>

\* the frames from index i on that every stack has and that are equal in all
RECURSIVE shared_from(_, _)
shared_from(stacks, i) ==
    IF /\ \A k \in DOMAIN stacks : i <= Len(stacks[k])
       /\ \A k \in DOMAIN stacks : stacks[k][i] = stacks[1][i]
    THEN <<stacks[1][i]>> \o shared_from(stacks, i + 1)
    ELSE <<>>

get_shared_frames(tb_ex_list) == shared_from(tb_ex_list, 1)

\* ------------------------------------------------------------------------
\* errors2str
\* ------------------------------------------------------------------------
\* host[4:] if host.startswith("www.") else host
strip_www(host) ==
    IF Len(host) >= 2 /\ host[1] = "www" THEN Tail(host) ELSE host

\* one (title, msg) of errors2str; msg is kept as the parts it is built from
report(host, method, exception_name, parsing_error_list) ==
    [title |-> host[1] \o ": " \o method \o " - " \o exception_name
                       \o " (found by recipe2txt)",
     host |-> JoinWith(host, "."),
     exception |-> exception_name,
     triggered_by |-> IF method = GENERAL_PARSING_ERROR THEN "scrape_html()"
                      ELSE "." \o method \o "()",
     urls |-> [i \in DOMAIN parsing_error_list |-> parsing_error_list[i].url],
     tb_ex_list |-> [i \in DOMAIN parsing_error_list |-> parsing_error_list[i].traceback],
     shared_frames |->
         get_shared_frames([i \in DOMAIN parsing_error_list |->
                                parsing_error_list[i].traceback]),
     dot_explanation |-> Len(parsing_error_list) > 1]

\* the two inner loops of errors2str: the buckets of one host, in order
RECURSIVE kind_items(_, _)
kind_items(method, exception_names) ==
    IF exception_names = <<>> THEN <<>>
    ELSE <<[method |-> method, exception_name |-> Head(exception_names).key,
            parsing_error_list |-> Head(exception_names).val]>>
         \o kind_items(method, Tail(exception_names))

RECURSIVE method_items(_)
method_items(methoddict) ==
    IF methoddict = <<>> THEN <<>>
    ELSE kind_items(Head(methoddict).key, Head(methoddict).val)
         \o method_items(Tail(methoddict))

\* the loop body rebinds host, and the next bucket of the host starts from that
RECURSIVE host_reports(_, _)
host_reports(host, buckets) ==
    IF buckets = <<>> THEN <<>>
    ELSE <<report(strip_www(host), Head(buckets).method, Head(buckets).exception_name,
                  Head(buckets).parsing_error_list)>>
         \o host_reports(strip_www(host), Tail(buckets))

RECURSIVE errors2str(_)
errors2str(reg) ==
    IF reg = <<>> THEN <<>>
    ELSE host_reports(Head(reg).key, method_items(Head(reg).val))
         \o errors2str(Tail(reg))

\* a call of handle_parsing_error by unit u
HandleParsingError(u, url, exception, method, log, save_error) ==
    /\ Len(handled) < MaxFailures
    /\ LET h == handle_parsing_error(LogState, log_level, categorized_errors, u, url,
                                     exception, method, log, save_error)
       IN  /\ SetLogState(h.L)
           /\ categorized_errors' = h.reg
           /\ handled' = Append(handled,
                                [url |-> url, exception |-> exception, method |-> method,
                                 save_error |-> save_error, ret |-> h.ret])
    /\ UNCHANGED <<log_level, blocks, reports, outcomes, trace_call, counts>>

\* an errors2str that takes the failures it reports out of the registry
Errors2str_consuming ==
    /\ reports' = errors2str(categorized_errors)
    /\ categorized_errors' = <<>>
    /\ UNCHANGED <<logvars, log_level, blocks, handled, outcomes, trace_call, counts>>

\* a call of errors2str
Errors2str ==
    /\ reports' = errors2str(categorized_errors)
    /\ UNCHANGED <<logvars, log_level, blocks, categorized_errors, handled, outcomes,
                   trace_call, counts>>

\* ------------------------------------------------------------------------
\* html2recipe.py: the extraction steps and what they do with an exception
\* ------------------------------------------------------------------------
\* the classes of an exception type, the type itself first among them
Ancestors(name) ==
    CASE name = "TypeError" -> {"TypeError", "Exception", "BaseException"}
      [] name = "AttributeError" -> {"AttributeError", "Exception", "BaseException"}
      [] name = "KeyError" -> {"KeyError", "LookupError", "Exception", "BaseException"}
      [] name = "ValueError" -> {"ValueError", "Exception", "BaseException"}
      [] name = "NotImplementedError" ->
             {"NotImplementedError", "RuntimeError", "Exception", "BaseException"}
      [] name = "MemoryError" -> {"MemoryError", "Exception", "BaseException"}
      [] name = "KeyboardInterrupt" -> {"KeyboardInterrupt", "BaseException"}
      [] name = "SystemExit" -> {"SystemExit", "BaseException"}
      [] name = "SchemaOrgException" ->
             {"SchemaOrgException", "RecipeScrapersExceptions", "Exception", "BaseException"}
      [] name = "ElementNotFoundInHtml" ->
             {"ElementNotFoundInHtml", "RecipeScrapersExceptions", "Exception", "BaseException"}
      [] name = "WebsiteNotImplementedError" ->
             {"WebsiteNotImplementedError", "RecipeScrapersExceptions", "Exception",
              "BaseException"}
      [] name = "NoSchemaFoundInWildMode" ->
             {"NoSchemaFoundInWildMode", "RecipeScrapersExceptions", "Exception",
              "BaseException"}

\* "except (classes) as e" takes e
isinstance(e, classes) == Ancestors(e.name) \cap classes # {}

\* the test without MemoryError
FATAL_without_memory == {"KeyboardInterrupt", "SystemExit"}

\* type(e) in (KeyboardInterrupt, SystemExit, MemoryError)
FATAL == {"KeyboardInterrupt", "SystemExit", "MemoryError"}

\* A str that html2recipe has as a value (what a step returns, an info, a
\* field of a Recipe) is the sequence of the code points of its characters.
\* ord(c) is the code point of a character of ASCII, codes(chars) the str of
\* the characters written out one by one.
ord(c) ==
    LET \* the characters U+0020 to U+005F and U+0061 to U+007E
        upper == <<
            " ", "!", "\"", "#", "$", "%", "&", "'", "(", ")", "*", "+", ",", "-", ".", "/",
            "0", "1", "2", "3", "4", "5", "6", "7", "8", "9", ":", ";", "<", "=", ">", "?",
            "@", "A", "B", "C", "D", "E", "F", "G", "H", "I", "J", "K", "L", "M", "N", "O",
            "P", "Q", "R", "S", "T", "U", "V", "W", "X", "Y", "Z", "[", "\\", "]", "^", "_">>
        lower == <<
            "a", "b", "c", "d", "e", "f", "g", "h", "i", "j", "k", "l", "m", "n", "o", "p",
            "q", "r", "s", "t", "u", "v", "w", "x", "y", "z", "{", "|", "}", "~">>
    IN  IF c = "\t" THEN 9
        ELSE IF c = "\n" THEN 10
        ELSE IF c = "\f" THEN 12
        ELSE IF c = "\r" THEN 13
        ELSE IF \E i \in DOMAIN upper : upper[i] = c
             THEN 31 + CHOOSE i \in DOMAIN upper : upper[i] = c
        ELSE 96 + CHOOSE i \in DOMAIN lower : lower[i] = c
codes(chars) == [i \in DOMAIN chars |-> ord(chars[i])]

NA == codes(<<"N", "/", "A">>)
DUMMY_URL == [scheme |-> "https", userinfo |-> "",
              netloc |-> <<<<"n", "o", "t", "i", "n", "i", "t", "i", "a", "l", "i", "z",
                             "e", "d">>, <<"n", "o">>>>,
              port |-> "", rest |-> <<"">>]
NoUrl == [scheme |-> "", userinfo |-> "", netloc |-> <<>>, port |-> "", rest |-> <<>>]
ESSENTIAL == <<"ingredients", "instructions">>
ON_DISPLAY == ESSENTIAL \o <<"title", "total_time", "yields">>
METHODS == ON_DISPLAY \o <<"host", "image", "nutrients">>

\* method.replace("_", " ") of the names of RECIPE_ATTRIBUTES: two of them have
\* an underscore
replace_underscore(method) ==
    CASE method = "total_time" -> "total time"
      [] method = "scraper_version" -> "scraper version"
      [] OTHER -> method

\* str.capitalize() of the names of RECIPE_ATTRIBUTES, as replace_underscore
\* leaves them: the first letter in upper case, the others (already) in lower
capitalize(text) ==
    CASE text = "ingredients" -> "Ingredients"
      [] text = "instructions" -> "Instructions"
      [] text = "title" -> "Title"
      [] text = "total time" -> "Total time"
      [] text = "yields" -> "Yields"
      [] text = "host" -> "Host"
      [] text = "image" -> "Image"
      [] text = "nutrients" -> "Nutrients"
      [] text = "url" -> "Url"
      [] text = "status" -> "Status"
      [] text = "scraper version" -> "Scraper version"
      [] OTHER -> text

\* The values a step of the scraper returns: a str, an int, a list of strs,
\* a dict of strs (the sequence of its items [key, val]), or None
PyStr(s) == [str |-> s]
PyInt(n) == [int |-> n]
PyList(items) == [list |-> items]
PyDict(items) == [dict |-> items]
PyNone == [none |-> TRUE]

\* the truth value of a value: None, "", 0, [] and {} are false
bool(v) ==
    IF "str" \in DOMAIN v THEN v.str # <<>>
    ELSE IF "int" \in DOMAIN v THEN v.int # 0
    ELSE IF "list" \in DOMAIN v THEN v.list # <<>>
    ELSE IF "dict" \in DOMAIN v THEN v.dict # <<>>
    ELSE FALSE

\* str(n) of an int
RECURSIVE str(_)
str(n) ==
    IF n < 0 THEN <<ord("-")>> \o str(0 - n)
    ELSE IF n < 10 THEN <<ord("0") + n>>
    ELSE str(n \div 10) \o str(n % 10)

\* s.replace(old, new): the occurrences of old from left to right
RECURSIVE replace(_, _, _)
replace(s, old, new) ==
    IF Len(s) < Len(old) THEN s
    ELSE IF SubSeq(s, 1, Len(old)) = old
         THEN new \o replace(SubSeq(s, Len(old) + 1, Len(s)), old, new)
    ELSE <<Head(s)>> \o replace(Tail(s), old, new)

\* sep.join(items)
RECURSIVE join(_, _)
join(sep, items) ==
    IF items = <<>> THEN <<>>
    ELSE IF Len(items) = 1 THEN items[1]
    ELSE items[1] \o sep \o join(sep, Tail(items))

\* misc.dict2str: one line "key: value" for every item
dict2str(d) ==
    join(<<ord(linesep)>>, [i \in DOMAIN d |-> d[i].key \o codes(<<":", " ">>) \o d[i].val])

\* re.compile("\w").search(s): s has a word character, which for a str
\* pattern is a letter or a digit of any script, or the underscore.  word has
\* the ranges of the code points that \w matches (Unicode 14.0.0, the
\* database of the interpreter's unicodedata).
contains_alphanumeric(s) ==
    LET word == {
        <<48, 57>>, <<65, 90>>, <<95, 95>>, <<97, 122>>, <<170, 170>>, <<178, 179>>,
        <<181, 181>>, <<185, 186>>, <<188, 190>>, <<192, 214>>, <<216, 246>>, <<248, 705>>,
        <<710, 721>>, <<736, 740>>, <<748, 748>>, <<750, 750>>, <<880, 884>>, <<886, 887>>,
        <<890, 893>>, <<895, 895>>, <<902, 902>>, <<904, 906>>, <<908, 908>>, <<910, 929>>,
        <<931, 1013>>, <<1015, 1153>>, <<1162, 1327>>, <<1329, 1366>>, <<1369, 1369>>,
        <<1376, 1416>>, <<1488, 1514>>, <<1519, 1522>>, <<1568, 1610>>, <<1632, 1641>>,
        <<1646, 1647>>, <<1649, 1747>>, <<1749, 1749>>, <<1765, 1766>>, <<1774, 1788>>,
        <<1791, 1791>>, <<1808, 1808>>, <<1810, 1839>>, <<1869, 1957>>, <<1969, 1969>>,
        <<1984, 2026>>, <<2036, 2037>>, <<2042, 2042>>, <<2048, 2069>>, <<2074, 2074>>,
        <<2084, 2084>>, <<2088, 2088>>, <<2112, 2136>>, <<2144, 2154>>, <<2160, 2183>>,
        <<2185, 2190>>, <<2208, 2249>>, <<2308, 2361>>, <<2365, 2365>>, <<2384, 2384>>,
        <<2392, 2401>>, <<2406, 2415>>, <<2417, 2432>>, <<2437, 2444>>, <<2447, 2448>>,
        <<2451, 2472>>, <<2474, 2480>>, <<2482, 2482>>, <<2486, 2489>>, <<2493, 2493>>,
        <<2510, 2510>>, <<2524, 2525>>, <<2527, 2529>>, <<2534, 2545>>, <<2548, 2553>>,
        <<2556, 2556>>, <<2565, 2570>>, <<2575, 2576>>, <<2579, 2600>>, <<2602, 2608>>,
        <<2610, 2611>>, <<2613, 2614>>, <<2616, 2617>>, <<2649, 2652>>, <<2654, 2654>>,
        <<2662, 2671>>, <<2674, 2676>>, <<2693, 2701>>, <<2703, 2705>>, <<2707, 2728>>,
        <<2730, 2736>>, <<2738, 2739>>, <<2741, 2745>>, <<2749, 2749>>, <<2768, 2768>>,
        <<2784, 2785>>, <<2790, 2799>>, <<2809, 2809>>, <<2821, 2828>>, <<2831, 2832>>,
        <<2835, 2856>>, <<2858, 2864>>, <<2866, 2867>>, <<2869, 2873>>, <<2877, 2877>>,
        <<2908, 2909>>, <<2911, 2913>>, <<2918, 2927>>, <<2929, 2935>>, <<2947, 2947>>,
        <<2949, 2954>>, <<2958, 2960>>, <<2962, 2965>>, <<2969, 2970>>, <<2972, 2972>>,
        <<2974, 2975>>, <<2979, 2980>>, <<2984, 2986>>, <<2990, 3001>>, <<3024, 3024>>,
        <<3046, 3058>>, <<3077, 3084>>, <<3086, 3088>>, <<3090, 3112>>, <<3114, 3129>>,
        <<3133, 3133>>, <<3160, 3162>>, <<3165, 3165>>, <<3168, 3169>>, <<3174, 3183>>,
        <<3192, 3198>>, <<3200, 3200>>, <<3205, 3212>>, <<3214, 3216>>, <<3218, 3240>>,
        <<3242, 3251>>, <<3253, 3257>>, <<3261, 3261>>, <<3293, 3294>>, <<3296, 3297>>,
        <<3302, 3311>>, <<3313, 3314>>, <<3332, 3340>>, <<3342, 3344>>, <<3346, 3386>>,
        <<3389, 3389>>, <<3406, 3406>>, <<3412, 3414>>, <<3416, 3425>>, <<3430, 3448>>,
        <<3450, 3455>>, <<3461, 3478>>, <<3482, 3505>>, <<3507, 3515>>, <<3517, 3517>>,
        <<3520, 3526>>, <<3558, 3567>>, <<3585, 3632>>, <<3634, 3635>>, <<3648, 3654>>,
        <<3664, 3673>>, <<3713, 3714>>, <<3716, 3716>>, <<3718, 3722>>, <<3724, 3747>>,
        <<3749, 3749>>, <<3751, 3760>>, <<3762, 3763>>, <<3773, 3773>>, <<3776, 3780>>,
        <<3782, 3782>>, <<3792, 3801>>, <<3804, 3807>>, <<3840, 3840>>, <<3872, 3891>>,
        <<3904, 3911>>, <<3913, 3948>>, <<3976, 3980>>, <<4096, 4138>>, <<4159, 4169>>,
        <<4176, 4181>>, <<4186, 4189>>, <<4193, 4193>>, <<4197, 4198>>, <<4206, 4208>>,
        <<4213, 4225>>, <<4238, 4238>>, <<4240, 4249>>, <<4256, 4293>>, <<4295, 4295>>,
        <<4301, 4301>>, <<4304, 4346>>, <<4348, 4680>>, <<4682, 4685>>, <<4688, 4694>>,
        <<4696, 4696>>, <<4698, 4701>>, <<4704, 4744>>, <<4746, 4749>>, <<4752, 4784>>,
        <<4786, 4789>>, <<4792, 4798>>, <<4800, 4800>>, <<4802, 4805>>, <<4808, 4822>>,
        <<4824, 4880>>, <<4882, 4885>>, <<4888, 4954>>, <<4969, 4988>>, <<4992, 5007>>,
        <<5024, 5109>>, <<5112, 5117>>, <<5121, 5740>>, <<5743, 5759>>, <<5761, 5786>>,
        <<5792, 5866>>, <<5870, 5880>>, <<5888, 5905>>, <<5919, 5937>>, <<5952, 5969>>,
        <<5984, 5996>>, <<5998, 6000>>, <<6016, 6067>>, <<6103, 6103>>, <<6108, 6108>>,
        <<6112, 6121>>, <<6128, 6137>>, <<6160, 6169>>, <<6176, 6264>>, <<6272, 6276>>,
        <<6279, 6312>>, <<6314, 6314>>, <<6320, 6389>>, <<6400, 6430>>, <<6470, 6509>>,
        <<6512, 6516>>, <<6528, 6571>>, <<6576, 6601>>, <<6608, 6618>>, <<6656, 6678>>,
        <<6688, 6740>>, <<6784, 6793>>, <<6800, 6809>>, <<6823, 6823>>, <<6917, 6963>>,
        <<6981, 6988>>, <<6992, 7001>>, <<7043, 7072>>, <<7086, 7141>>, <<7168, 7203>>,
        <<7232, 7241>>, <<7245, 7293>>, <<7296, 7304>>, <<7312, 7354>>, <<7357, 7359>>,
        <<7401, 7404>>, <<7406, 7411>>, <<7413, 7414>>, <<7418, 7418>>, <<7424, 7615>>,
        <<7680, 7957>>, <<7960, 7965>>, <<7968, 8005>>, <<8008, 8013>>, <<8016, 8023>>,
        <<8025, 8025>>, <<8027, 8027>>, <<8029, 8029>>, <<8031, 8061>>, <<8064, 8116>>,
        <<8118, 8124>>, <<8126, 8126>>, <<8130, 8132>>, <<8134, 8140>>, <<8144, 8147>>,
        <<8150, 8155>>, <<8160, 8172>>, <<8178, 8180>>, <<8182, 8188>>, <<8304, 8305>>,
        <<8308, 8313>>, <<8319, 8329>>, <<8336, 8348>>, <<8450, 8450>>, <<8455, 8455>>,
        <<8458, 8467>>, <<8469, 8469>>, <<8473, 8477>>, <<8484, 8484>>, <<8486, 8486>>,
        <<8488, 8488>>, <<8490, 8493>>, <<8495, 8505>>, <<8508, 8511>>, <<8517, 8521>>,
        <<8526, 8526>>, <<8528, 8585>>, <<9312, 9371>>, <<9450, 9471>>, <<10102, 10131>>,
        <<11264, 11492>>, <<11499, 11502>>, <<11506, 11507>>, <<11517, 11517>>,
        <<11520, 11557>>, <<11559, 11559>>, <<11565, 11565>>, <<11568, 11623>>,
        <<11631, 11631>>, <<11648, 11670>>, <<11680, 11686>>, <<11688, 11694>>,
        <<11696, 11702>>, <<11704, 11710>>, <<11712, 11718>>, <<11720, 11726>>,
        <<11728, 11734>>, <<11736, 11742>>, <<11823, 11823>>, <<12293, 12295>>,
        <<12321, 12329>>, <<12337, 12341>>, <<12344, 12348>>, <<12353, 12438>>,
        <<12445, 12447>>, <<12449, 12538>>, <<12540, 12543>>, <<12549, 12591>>,
        <<12593, 12686>>, <<12690, 12693>>, <<12704, 12735>>, <<12784, 12799>>,
        <<12832, 12841>>, <<12872, 12879>>, <<12881, 12895>>, <<12928, 12937>>,
        <<12977, 12991>>, <<13312, 19903>>, <<19968, 42124>>, <<42192, 42237>>,
        <<42240, 42508>>, <<42512, 42539>>, <<42560, 42606>>, <<42623, 42653>>,
        <<42656, 42735>>, <<42775, 42783>>, <<42786, 42888>>, <<42891, 42954>>,
        <<42960, 42961>>, <<42963, 42963>>, <<42965, 42969>>, <<42994, 43009>>,
        <<43011, 43013>>, <<43015, 43018>>, <<43020, 43042>>, <<43056, 43061>>,
        <<43072, 43123>>, <<43138, 43187>>, <<43216, 43225>>, <<43250, 43255>>,
        <<43259, 43259>>, <<43261, 43262>>, <<43264, 43301>>, <<43312, 43334>>,
        <<43360, 43388>>, <<43396, 43442>>, <<43471, 43481>>, <<43488, 43492>>,
        <<43494, 43518>>, <<43520, 43560>>, <<43584, 43586>>, <<43588, 43595>>,
        <<43600, 43609>>, <<43616, 43638>>, <<43642, 43642>>, <<43646, 43695>>,
        <<43697, 43697>>, <<43701, 43702>>, <<43705, 43709>>, <<43712, 43712>>,
        <<43714, 43714>>, <<43739, 43741>>, <<43744, 43754>>, <<43762, 43764>>,
        <<43777, 43782>>, <<43785, 43790>>, <<43793, 43798>>, <<43808, 43814>>,
        <<43816, 43822>>, <<43824, 43866>>, <<43868, 43881>>, <<43888, 44002>>,
        <<44016, 44025>>, <<44032, 55203>>, <<55216, 55238>>, <<55243, 55291>>,
        <<63744, 64109>>, <<64112, 64217>>, <<64256, 64262>>, <<64275, 64279>>,
        <<64285, 64285>>, <<64287, 64296>>, <<64298, 64310>>, <<64312, 64316>>,
        <<64318, 64318>>, <<64320, 64321>>, <<64323, 64324>>, <<64326, 64433>>,
        <<64467, 64829>>, <<64848, 64911>>, <<64914, 64967>>, <<65008, 65019>>,
        <<65136, 65140>>, <<65142, 65276>>, <<65296, 65305>>, <<65313, 65338>>,
        <<65345, 65370>>, <<65382, 65470>>, <<65474, 65479>>, <<65482, 65487>>,
        <<65490, 65495>>, <<65498, 65500>>, <<65536, 65547>>, <<65549, 65574>>,
        <<65576, 65594>>, <<65596, 65597>>, <<65599, 65613>>, <<65616, 65629>>,
        <<65664, 65786>>, <<65799, 65843>>, <<65856, 65912>>, <<65930, 65931>>,
        <<66176, 66204>>, <<66208, 66256>>, <<66273, 66299>>, <<66304, 66339>>,
        <<66349, 66378>>, <<66384, 66421>>, <<66432, 66461>>, <<66464, 66499>>,
        <<66504, 66511>>, <<66513, 66517>>, <<66560, 66717>>, <<66720, 66729>>,
        <<66736, 66771>>, <<66776, 66811>>, <<66816, 66855>>, <<66864, 66915>>,
        <<66928, 66938>>, <<66940, 66954>>, <<66956, 66962>>, <<66964, 66965>>,
        <<66967, 66977>>, <<66979, 66993>>, <<66995, 67001>>, <<67003, 67004>>,
        <<67072, 67382>>, <<67392, 67413>>, <<67424, 67431>>, <<67456, 67461>>,
        <<67463, 67504>>, <<67506, 67514>>, <<67584, 67589>>, <<67592, 67592>>,
        <<67594, 67637>>, <<67639, 67640>>, <<67644, 67644>>, <<67647, 67669>>,
        <<67672, 67702>>, <<67705, 67742>>, <<67751, 67759>>, <<67808, 67826>>,
        <<67828, 67829>>, <<67835, 67867>>, <<67872, 67897>>, <<67968, 68023>>,
        <<68028, 68047>>, <<68050, 68096>>, <<68112, 68115>>, <<68117, 68119>>,
        <<68121, 68149>>, <<68160, 68168>>, <<68192, 68222>>, <<68224, 68255>>,
        <<68288, 68295>>, <<68297, 68324>>, <<68331, 68335>>, <<68352, 68405>>,
        <<68416, 68437>>, <<68440, 68466>>, <<68472, 68497>>, <<68521, 68527>>,
        <<68608, 68680>>, <<68736, 68786>>, <<68800, 68850>>, <<68858, 68899>>,
        <<68912, 68921>>, <<69216, 69246>>, <<69248, 69289>>, <<69296, 69297>>,
        <<69376, 69415>>, <<69424, 69445>>, <<69457, 69460>>, <<69488, 69505>>,
        <<69552, 69579>>, <<69600, 69622>>, <<69635, 69687>>, <<69714, 69743>>,
        <<69745, 69746>>, <<69749, 69749>>, <<69763, 69807>>, <<69840, 69864>>,
        <<69872, 69881>>, <<69891, 69926>>, <<69942, 69951>>, <<69956, 69956>>,
        <<69959, 69959>>, <<69968, 70002>>, <<70006, 70006>>, <<70019, 70066>>,
        <<70081, 70084>>, <<70096, 70106>>, <<70108, 70108>>, <<70113, 70132>>,
        <<70144, 70161>>, <<70163, 70187>>, <<70272, 70278>>, <<70280, 70280>>,
        <<70282, 70285>>, <<70287, 70301>>, <<70303, 70312>>, <<70320, 70366>>,
        <<70384, 70393>>, <<70405, 70412>>, <<70415, 70416>>, <<70419, 70440>>,
        <<70442, 70448>>, <<70450, 70451>>, <<70453, 70457>>, <<70461, 70461>>,
        <<70480, 70480>>, <<70493, 70497>>, <<70656, 70708>>, <<70727, 70730>>,
        <<70736, 70745>>, <<70751, 70753>>, <<70784, 70831>>, <<70852, 70853>>,
        <<70855, 70855>>, <<70864, 70873>>, <<71040, 71086>>, <<71128, 71131>>,
        <<71168, 71215>>, <<71236, 71236>>, <<71248, 71257>>, <<71296, 71338>>,
        <<71352, 71352>>, <<71360, 71369>>, <<71424, 71450>>, <<71472, 71483>>,
        <<71488, 71494>>, <<71680, 71723>>, <<71840, 71922>>, <<71935, 71942>>,
        <<71945, 71945>>, <<71948, 71955>>, <<71957, 71958>>, <<71960, 71983>>,
        <<71999, 71999>>, <<72001, 72001>>, <<72016, 72025>>, <<72096, 72103>>,
        <<72106, 72144>>, <<72161, 72161>>, <<72163, 72163>>, <<72192, 72192>>,
        <<72203, 72242>>, <<72250, 72250>>, <<72272, 72272>>, <<72284, 72329>>,
        <<72349, 72349>>, <<72368, 72440>>, <<72704, 72712>>, <<72714, 72750>>,
        <<72768, 72768>>, <<72784, 72812>>, <<72818, 72847>>, <<72960, 72966>>,
        <<72968, 72969>>, <<72971, 73008>>, <<73030, 73030>>, <<73040, 73049>>,
        <<73056, 73061>>, <<73063, 73064>>, <<73066, 73097>>, <<73112, 73112>>,
        <<73120, 73129>>, <<73440, 73458>>, <<73648, 73648>>, <<73664, 73684>>,
        <<73728, 74649>>, <<74752, 74862>>, <<74880, 75075>>, <<77712, 77808>>,
        <<77824, 78894>>, <<82944, 83526>>, <<92160, 92728>>, <<92736, 92766>>,
        <<92768, 92777>>, <<92784, 92862>>, <<92864, 92873>>, <<92880, 92909>>,
        <<92928, 92975>>, <<92992, 92995>>, <<93008, 93017>>, <<93019, 93025>>,
        <<93027, 93047>>, <<93053, 93071>>, <<93760, 93846>>, <<93952, 94026>>,
        <<94032, 94032>>, <<94099, 94111>>, <<94176, 94177>>, <<94179, 94179>>,
        <<94208, 100343>>, <<100352, 101589>>, <<101632, 101640>>, <<110576, 110579>>,
        <<110581, 110587>>, <<110589, 110590>>, <<110592, 110882>>, <<110928, 110930>>,
        <<110948, 110951>>, <<110960, 111355>>, <<113664, 113770>>, <<113776, 113788>>,
        <<113792, 113800>>, <<113808, 113817>>, <<119520, 119539>>, <<119648, 119672>>,
        <<119808, 119892>>, <<119894, 119964>>, <<119966, 119967>>, <<119970, 119970>>,
        <<119973, 119974>>, <<119977, 119980>>, <<119982, 119993>>, <<119995, 119995>>,
        <<119997, 120003>>, <<120005, 120069>>, <<120071, 120074>>, <<120077, 120084>>,
        <<120086, 120092>>, <<120094, 120121>>, <<120123, 120126>>, <<120128, 120132>>,
        <<120134, 120134>>, <<120138, 120144>>, <<120146, 120485>>, <<120488, 120512>>,
        <<120514, 120538>>, <<120540, 120570>>, <<120572, 120596>>, <<120598, 120628>>,
        <<120630, 120654>>, <<120656, 120686>>, <<120688, 120712>>, <<120714, 120744>>,
        <<120746, 120770>>, <<120772, 120779>>, <<120782, 120831>>, <<122624, 122654>>,
        <<123136, 123180>>, <<123191, 123197>>, <<123200, 123209>>, <<123214, 123214>>,
        <<123536, 123565>>, <<123584, 123627>>, <<123632, 123641>>, <<124896, 124902>>,
        <<124904, 124907>>, <<124909, 124910>>, <<124912, 124926>>, <<124928, 125124>>,
        <<125127, 125135>>, <<125184, 125251>>, <<125259, 125259>>, <<125264, 125273>>,
        <<126065, 126123>>, <<126125, 126127>>, <<126129, 126132>>, <<126209, 126253>>,
        <<126255, 126269>>, <<126464, 126467>>, <<126469, 126495>>, <<126497, 126498>>,
        <<126500, 126500>>, <<126503, 126503>>, <<126505, 126514>>, <<126516, 126519>>,
        <<126521, 126521>>, <<126523, 126523>>, <<126530, 126530>>, <<126535, 126535>>,
        <<126537, 126537>>, <<126539, 126539>>, <<126541, 126543>>, <<126545, 126546>>,
        <<126548, 126548>>, <<126551, 126551>>, <<126553, 126553>>, <<126555, 126555>>,
        <<126557, 126557>>, <<126559, 126559>>, <<126561, 126562>>, <<126564, 126564>>,
        <<126567, 126570>>, <<126572, 126578>>, <<126580, 126583>>, <<126585, 126588>>,
        <<126590, 126590>>, <<126592, 126601>>, <<126603, 126619>>, <<126625, 126627>>,
        <<126629, 126633>>, <<126635, 126651>>, <<127232, 127244>>, <<130032, 130041>>,
        <<131072, 173791>>, <<173824, 177976>>, <<177984, 178205>>, <<178208, 183969>>,
        <<183984, 191456>>, <<194560, 195101>>, <<196608, 201546>>}
    IN  \E i \in DOMAIN s : \E r \in word : r[1] <= s[i] /\ s[i] <= r[2]

\* misc.is_url: a scheme and a host
is_url(url) == url.scheme # "" /\ url.netloc # <<>>

get_url(L, level, u, parsed) ==
    IF parsed.url # NoUrl
    THEN IF is_url(parsed.url)
         THEN [L |-> L, url |-> parsed.url]
         ELSE [L |-> Handle(L, logger, level, "log", u,
                            Call(ERROR, <<"N", "ot an URL: ", "%s">>, <<UrlText(parsed.url)>>,
                                 None, None, FALSE)),
               url |-> DUMMY_URL]
    ELSE [L |-> Handle(L, logger, level, "log", u,
                       Call(ERROR, <<"N", "o URL for parsed data">>, EmptyArgs,
                            None, None, FALSE)),
          url |-> DUMMY_URL]

\* info2str(method, info): the str of what a step returned.  The result
\* tells the str returned or the exception that leaves info2str, and the list
\* info as the call leaves it (the characters of a list of characters are
\* replaced in place).
info2str(L, level, u, method, info) ==
    LET log == IF method \in Elems(ON_DISPLAY) THEN ERROR ELSE WARNING
        method_name == replace_underscore(method)
        is_int == "int" \in DOMAIN info
        is_str == "str" \in DOMAIN info
        is_list == "list" \in DOMAIN info
        is_dict == "dict" \in DOMAIN info
        chars == [i \in DOMAIN info.list |->
                     IF info.list[i] = <<>> THEN codes(<<" ">>)
                     ELSE IF info.list[i] = codes(<<",">>) THEN <<ord(linesep)>>
                     ELSE info.list[i]]
        by_chars == bool(info) /\ method = "ingredients" /\ is_list /\ Len(info.list[1]) < 2
        \* info after the tests on its type
        typed ==
            IF is_int THEN IF info.int = 0 THEN PyNone ELSE PyStr(str(info.int))
            ELSE IF ~bool(info) THEN info
            ELSE IF method = "ingredients" /\ is_list
                 THEN IF by_chars THEN PyStr(join(<<>>, chars))
                      ELSE PyStr(join(<<ord(linesep)>>, info.list))
            ELSE IF method = "nutrients" /\ is_dict THEN PyStr(dict2str(info.dict))
            ELSE IF method = "instructions" /\ is_str
                 THEN PyStr(replace(info.str, <<ord(linesep), ord(linesep)>>,
                                    <<ord(linesep)>>))
            ELSE IF method = "instructions" /\ is_list
                 THEN PyStr(join(<<ord(linesep)>>, info.list))
            ELSE info
        converted ==
            \/ method = "ingredients" /\ is_list
            \/ method = "nutrients" /\ is_dict
            \/ method = "instructions" /\ (is_str \/ is_list)
        unexpected_type == ~is_int /\ ~(bool(info) /\ (is_str \/ converted))
        after == IF by_chars THEN PyList(chars) ELSE info
        \* s.isspace(): s is not empty and has whitespace characters only
        whitespace == {<<9, 13>>, <<28, 32>>, <<133, 133>>, <<160, 160>>, <<5760, 5760>>,
                       <<8192, 8202>>, <<8232, 8233>>, <<8239, 8239>>, <<8287, 8287>>,
                       <<12288, 12288>>}
        isspace(s) ==
            /\ s # <<>>
            /\ \A i \in DOMAIN s : \E r \in whitespace : r[1] <= s[i] /\ s[i] <= r[2]
        \* info if info and contains_alphanumeric.search(info) else None
        searched ==
            IF ~bool(typed) THEN Returned(PyNone)
            ELSE IF "str" \notin DOMAIN typed THEN Raised("TypeError")
            ELSE IF contains_alphanumeric(typed.str) THEN Returned(typed)
            ELSE Returned(PyNone)
    IN  IF searched.kind = "raise"
        THEN [L |-> L, ret |-> PyNone, raised |-> searched.exception, info |-> after]
        ELSE IF \/ ~bool(searched.value)
                \/ isspace(searched.value.str)
                \/ searched.value.str = codes(<<"N", "o", "n", "e">>)
        THEN [L |-> Handle(L, logger, level, "log", u,
                           Call(log, <<"%s", " contains nothing">>,
                                <<capitalize(method_name)>>, None, None, FALSE)),
              ret |-> PyStr(NA), raised |-> None, info |-> after]
        ELSE [L |-> IF unexpected_type
                    THEN Handle(L, logger, level, "log", u,
                                Call(log, <<"'", "%s", "' has the unhandled type ", "%s">>,
                                     <<method, "<class 'str'>">>, None, None, FALSE))
                    ELSE L,
              ret |-> searched.value, raised |-> None, info |-> after]

\* parsed2recipe(parsed): after its record the loop over METHODS calls
\* get_info, a name that html2recipe.py binds nowhere (the function there is
\* _get_info): the first pass raises NameError, and info2str, gen_status,
\* get_url and Recipe(...) of the lines after it are not reached
parsed2recipe(L, level, u, parsed) ==
    [L |-> Handle(L, logger, level, "log", u,
                  Call(INFO, <<"P", "arsing HTML">>, EmptyArgs, None, None, FALSE)),
     ret |-> PyNone, raised |-> "NameError"]

\* what a handle_parsing_error call adds to the history of such calls
HandledEntry(url, exception, method, save_error, ret) ==
    [url |-> url, exception |-> exception, method |-> method,
     save_error |-> save_error, ret |-> ret]

\* the result of a call that ended in handle_parsing_error: h is what that
\* call answered, ret what the caller returns after it
after_handling(h, url, e, method, ret) ==
    [L |-> h.L, reg |-> h.reg, hcall |-> <<HandledEntry(url, e, method, TRUE, h.ret)>>,
     ret |-> ret, raised |-> None]

\* handle_parsing_error(get_url(data), e, method_name, log) in _get_info: g is
\* what get_url answered
recorded_step(g, level, reg, u, e, method_name, log) ==
    after_handling(handle_parsing_error(g.L, level, reg, u, g.url, e, method_name, log, TRUE),
                   g.url, e, method_name, PyStr(NA))

\* step is what getattr(data, method)() does; the result tells the value
\* returned or the exception that leaves _get_info
_get_info(L, level, reg, u, method, data, step) ==
    LET log == IF method \in Elems(ON_DISPLAY) THEN ERROR ELSE WARNING
        method_name == replace_underscore(method)
    IN  IF step.kind = "return"
        THEN [L |-> L, reg |-> reg, hcall |-> <<>>,
              ret |-> IF bool(step.value) THEN step.value ELSE PyStr(NA),
              raised |-> None]
        ELSE LET e == step.exception
             IN  IF isinstance(e, {"SchemaOrgException", "ElementNotFoundInHtml",
                                   "TypeError", "AttributeError", "KeyError"})
                 THEN recorded_step(get_url(L, level, u, data), level, reg, u, e,
                                    method_name, log)
                 ELSE IF isinstance(e, {"NotImplementedError"})
                 THEN [L |-> Handle(L, logger, level, "log", u,
                                    Call(log, <<"%s", " not implemented for this website">>,
                                         <<capitalize(method_name)>>, None, None, FALSE)),
                       reg |-> reg, hcall |-> <<>>, ret |-> PyStr(NA), raised |-> None]
                 ELSE IF isinstance(e, {"Exception"})
                 THEN IF e.name \in FATAL
                      THEN [L |-> L, reg |-> reg, hcall |-> <<>>, ret |-> PyNone,
                            raised |-> e.name]
                      ELSE [L |-> Handle(L, logger, level, "log", u,
                                         Call(log, <<"E", "xtraction error for attribute ",
                                                     "%s", ":">>,
                                              <<method_name>>, e.name, None, FALSE)),
                            reg |-> reg, hcall |-> <<>>, ret |-> PyStr(NA), raised |-> None]
                 ELSE [L |-> L, reg |-> reg, hcall |-> <<>>, ret |-> PyNone,
                       raised |-> e.name]

\* html2parsed without its first except clause: the unsupported site is
\* handled like an AttributeError
html2parsed_records_unsupported(L, level, reg, u, url, step) ==
    IF step.kind = "return"
    THEN [L |-> L, reg |-> reg, hcall |-> <<>>, ret |-> step.value, raised |-> None]
    ELSE LET e == step.exception
         IN  IF isinstance(e, {"AttributeError", "TypeError", "WebsiteNotImplementedError",
                               "NoSchemaFoundInWildMode"})
             THEN after_handling(handle_parsing_error(L, level, reg, u, url, e, None, NoLog,
                                                      TRUE),
                                 url, e, None, None)
             ELSE IF isinstance(e, {"Exception"})
             THEN IF e.name \in FATAL
                  THEN [L |-> L, reg |-> reg, hcall |-> <<>>, ret |-> None,
                        raised |-> e.name]
                  ELSE [L |-> Handle(L, logger, level, "log", u,
                                     Call(ERROR, <<"P", "arsing error: ">>, EmptyArgs,
                                          e.name, None, FALSE)),
                        reg |-> reg, hcall |-> <<>>, ret |-> None, raised |-> None]
             ELSE [L |-> L, reg |-> reg, hcall |-> <<>>, ret |-> None, raised |-> e.name]

\* step is what recipe_scrapers.scrape_html does
html2parsed(L, level, reg, u, url, step) ==
    IF step.kind = "return"
    THEN [L |-> L, reg |-> reg, hcall |-> <<>>, ret |-> step.value, raised |-> None]
    ELSE LET e == step.exception
         IN  IF isinstance(e, {"WebsiteNotImplementedError", "NoSchemaFoundInWildMode"})
             THEN [L |-> Handle(L, logger, level, "log", u,
                                Call(ERROR, <<"U", "nknown Website. Extraction not supported">>,
                                     EmptyArgs, None, None, FALSE)),
                   reg |-> reg, hcall |-> <<>>, ret |-> None, raised |-> None]
             ELSE IF isinstance(e, {"AttributeError", "TypeError"})
             THEN after_handling(handle_parsing_error(L, level, reg, u, url, e, None, NoLog,
                                                      TRUE),
                                 url, e, None, None)
             ELSE IF isinstance(e, {"Exception"})
             THEN IF e.name \in FATAL
                  THEN [L |-> L, reg |-> reg, hcall |-> <<>>, ret |-> None,
                        raised |-> e.name]
                  ELSE [L |-> Handle(L, logger, level, "log", u,
                                     Call(ERROR, <<"P", "arsing error: ">>, EmptyArgs,
                                          e.name, None, FALSE)),
                        reg |-> reg, hcall |-> <<>>, ret |-> None, raised |-> None]
             ELSE [L |-> L, reg |-> reg, hcall |-> <<>>, ret |-> None, raised |-> e.name]

\* the state after a call op that answered r
Extracted(r, op, u, method, url, step) ==
    /\ SetLogState(r.L)
    /\ categorized_errors' = r.reg
    /\ handled' = handled \o r.hcall
    /\ outcomes' = Append(outcomes,
                          [op |-> op, unit |-> u, method |-> method, url |-> url,
                           step |-> step, ret |-> r.ret, raised |-> r.raised])

\* a call of _get_info by unit u
GetInfo(u, method, data, step) ==
    /\ Len(outcomes) < MaxExtractions
    /\ Extracted(_get_info(LogState, log_level, categorized_errors, u, method, data, step),
                 "_get_info", u, method, data.url, step)
    /\ UNCHANGED <<log_level, blocks, reports, trace_call, counts>>

\* a call of html2parsed by unit u
Html2parsed(u, url, step) ==
    /\ Len(outcomes) < MaxExtractions
    /\ Extracted(html2parsed(LogState, log_level, categorized_errors, u, url, step),
                 "html2parsed", u, None, url, step)
    /\ UNCHANGED <<log_level, blocks, reports, trace_call, counts>>

\* a call of info2str by unit u
Info2str(u, method, info) ==
    /\ Len(outcomes) < MaxExtractions
    /\ LET r == info2str(LogState, log_level, u, method, info)
       IN  /\ SetLogState(r.L)
           /\ outcomes' = Append(outcomes,
                                 [op |-> "info2str", unit |-> u, method |-> method,
                                  info |-> info, info_after |-> r.info, ret |-> r.ret,
                                  raised |-> r.raised])
    /\ UNCHANGED <<log_level, blocks, errvars, trace_call>>

\* a call of parsed2recipe by unit u
Parsed2recipe(u, parsed) ==
    /\ Len(outcomes) < MaxExtractions
    /\ LET r == parsed2recipe(LogState, log_level, u, parsed)
       IN  /\ SetLogState(r.L)
           /\ outcomes' = Append(outcomes,
                                 [op |-> "parsed2recipe", unit |-> u, parsed |-> parsed,
                                  ret |-> r.ret, raised |-> r.raised])
    /\ UNCHANGED <<log_level, blocks, errvars, trace_call>>

\* a call of get_shared_frames
GetSharedFrames(tb_ex_list) ==
    /\ trace_call' = [op |-> "get_shared_frames", tb_ex_list |-> tb_ex_list,
                      ret |-> get_shared_frames(tb_ex_list)]
    /\ UNCHANGED <<logvars, log_level, blocks, errvars, outcomes>>

\* ------------------------------------------------------------------------
\* html2recipe.py: the status of a recipe and its output
\* ------------------------------------------------------------------------
\* class RecipeStatus(IntEnum)
NOT_INITIALIZED == -1
UNREACHABLE == 0
UNKNOWN == 1
INCOMPLETE_ESSENTIAL == 2
INCOMPLETE_ON_DISPLAY == 3
COMPLETE_ON_DISPLAY == 4
COMPLETE == 5

\* Counts(): the two counters recipe2out touches
Counts == [parsed_partially |-> 0, parsed_successfully |-> 0]

\* the first i in lo..hi with infos[i] == NA, 0 if there is none
RECURSIVE first_NA(_, _, _)
first_NA(infos, lo, hi) ==
    IF lo > hi THEN 0
    ELSE IF infos[lo] = NA THEN lo ELSE first_NA(infos, lo + 1, hi)

\* a list shorter than METHODS is an IndexError at the first index it lacks,
\* unless an earlier element is NA
gen_status(infos) ==
    IF Len(infos) > Len(METHODS) THEN Raised("ValueError")
    ELSE IF \E i \in 1..Len(ESSENTIAL) : i <= Len(infos) /\ first_NA(infos, 1, i) # 0
         THEN Returned(INCOMPLETE_ESSENTIAL)
    ELSE IF Len(infos) < Len(ESSENTIAL) THEN Raised("IndexError")
    ELSE IF \E i \in (Len(ESSENTIAL) + 1)..Len(ON_DISPLAY) :
                i <= Len(infos) /\ first_NA(infos, Len(ESSENTIAL) + 1, i) # 0
         THEN Returned(INCOMPLETE_ON_DISPLAY)
    ELSE IF Len(infos) < Len(ON_DISPLAY) THEN Raised("IndexError")
    ELSE IF \E i \in (Len(ON_DISPLAY) + 1)..Len(METHODS) :
                i <= Len(infos) /\ first_NA(infos, Len(ON_DISPLAY) + 1, i) # 0
         THEN Returned(COMPLETE_ON_DISPLAY)
    ELSE IF Len(infos) < Len(METHODS) THEN Raised("IndexError")
    ELSE Returned(COMPLETE)

\* class Recipe with its defaults
UNINIT_RECIPE ==
    [ingredients |-> NA, instructions |-> NA, title |-> NA, total_time |-> NA,
     yields |-> NA, host |-> NA, image |-> NA, nutrients |-> NA, url |-> DUMMY_URL,
     status |-> NOT_INITIALIZED, scraper_version |-> codes(<<"-", "1">>)]

\* Recipe(url=, status=, scraper_version=, ingredients=infos[0], ...,
\* nutrients=infos[7])
Recipe(url, status, scraper_version, infos) ==
    [ingredients |-> infos[1], instructions |-> infos[2], title |-> infos[3],
     total_time |-> infos[4], yields |-> infos[5], host |-> infos[6],
     image |-> infos[7], nutrients |-> infos[8], url |-> url, status |-> status,
     scraper_version |-> scraper_version]

BETWEEN_RECIPES == linesep \o linesep \o linesep \o linesep \o linesep

\* the list of strs of a recipe; a str is the sequence of its parts, a part
\* being a text or the code points of a value of the recipe.  The title is
\* recipe.title if it is not NA, else recipe.url
_re2txt(recipe) ==
    LET text(t) == [text |-> t]
        value(v) == [codes |-> v]
    IN  <<IF recipe.title # NA THEN <<value(recipe.title)>>
          ELSE <<text(UrlText(recipe.url))>>,
          <<text(linesep \o linesep)>>,
          <<value(recipe.total_time), text(" min | "), value(recipe.yields),
            text(linesep \o linesep)>>,
          <<value(recipe.ingredients)>>,
          <<text(linesep \o linesep)>>,
          <<value(replace(recipe.instructions, <<ord(linesep)>>,
                          <<ord(linesep), ord(linesep)>>))>>,
          <<text(linesep \o linesep)>>,
          <<text("from: "), text(UrlText(recipe.url))>>,
          <<text(BETWEEN_RECIPES)>>>>

\* if recipe.status < INCOMPLETE_ON_DISPLAY: parsed_partially += 1, else: parsed_successfully += 1
count_status(c, status) ==
    IF status < INCOMPLETE_ON_DISPLAY
    THEN [c EXCEPT !.parsed_partially = @ + 1]
    ELSE [c EXCEPT !.parsed_successfully = @ + 1]

\* what recipe2out returns: None, the list of strs of _re2txt, or that of
\* _re2md, which recipe2txt.utils.markdown builds and of which only the
\* format is kept
NoOutput == [format |-> "none"]
Output(format, content) == [format |-> format, content |-> content]

\* recipe2out(recipe, counts, md); has_counts is false for counts=None
recipe2out(L, level, u, recipe, c, has_counts, md) ==
    IF recipe.status <= INCOMPLETE_ESSENTIAL
    THEN [L |-> Handle(L, logger, level, "log", u,
                       Call(ERROR, <<"N", "othing worthwhile could be extracted. Skipping...">>,
                            EmptyArgs, None, None, FALSE)),
          counts |-> c, ret |-> NoOutput]
    ELSE [L |-> L,
          counts |-> IF has_counts THEN count_status(c, recipe.status) ELSE c,
          ret |-> IF md THEN [format |-> "md"]
                  ELSE Output("txt", _re2txt(recipe))]

\* the recipe2out calls among the outcomes
Outputs == {i \in DOMAIN outcomes : outcomes[i].op = "recipe2out"}

\* the state after a recipe2out call that answered r
Written(r, u, recipe, has_counts, md) ==
    /\ SetLogState(r.L)
    /\ counts' = r.counts
    /\ outcomes' = Append(outcomes,
                          [op |-> "recipe2out", unit |-> u, recipe |-> recipe,
                           has_counts |-> has_counts, md |-> md, before |-> counts,
                           ret |-> r.ret, raised |-> None])

\* a call of recipe2out by unit u
Recipe2out(u, recipe, has_counts, md) ==
    /\ Cardinality(Outputs) < MaxOutputs
    /\ Len(calls) < MaxRecords
    /\ Written(recipe2out(LogState, log_level, u, recipe, counts, has_counts, md),
               u, recipe, has_counts, md)
    /\ UNCHANGED <<log_level, blocks, categorized_errors, handled, reports, trace_call>>

Init ==
    /\ tasklocal_context = [n \in {DEFAULT_CONTEXT} |-> NewContext]
    /\ log_level \in Thresholds
    /\ stream = <<>>
    /\ logfile = <<>>
    /\ blocks = [u \in Units |-> <<>>]
    /\ opens = [u \in Units |-> 0]
    /\ calls = <<>>
    /\ created = <<DEFAULT_CONTEXT>>
    /\ logger_list = <<logger, root_logger>>
    /\ disabled = {}
    /\ categorized_errors = <<>>
    /\ handled = <<>>
    /\ reports = <<>>
    /\ outcomes = <<>>
    /\ trace_call = NoTraceCall
    /\ counts = Counts

\* One unit of work (the sequential case): every kind of record
Next ==
    \/ \E lv \in RecordLevels, m \in {MsgFetch, DO_NOT_LOG} : Log(logger, DEFAULT_CONTEXT, lv, m)
    \/ \E lv \in RecordLevels, m \in {MsgProcessing, DO_NOT_LOG}, d \in BOOLEAN :
           Enter(DEFAULT_CONTEXT, lv, m, d)
    \/ ExitNormal(DEFAULT_CONTEXT)
    \/ ExitException(DEFAULT_CONTEXT, "ValueError", "boom")

Spec == Init /\ [][Next]_vars

\* Two cooperative tasks interleaved at their suspension points
CtxMsgOf(u) == IF u = Task1 THEN MsgProcessing ELSE MsgScraping

NextTasks ==
    \/ \E u \in Units, lv \in RecordLevels : Log(logger, u, lv, MsgFetch)
    \/ \E u \in {Task1, Task2}, lv \in RecordLevels, d \in BOOLEAN :
           Enter(u, lv, CtxMsgOf(u), d)
    \/ \E u \in {Task1, Task2} : ExitNormal(u)

SpecTasks == Init /\ [][NextTasks]_vars

\* A task with contexts, code outside the tasks, and set_level calls by both
Levels == {DEBUG, CRITICAL}

NextLevels ==
    \/ \E lv \in RecordLevels : Log(logger, Task1, lv, MsgFetch)
    \/ \E d \in BOOLEAN : Enter(Task1, INFO, MsgProcessing, d)
    \/ ExitNormal(Task1)
    \/ \E u \in {DEFAULT_CONTEXT, Task1}, new_level \in Levels : SetLevel(u, new_level)

SpecLevels == Init /\ [][NextLevels]_vars

\* One unit of work whose loggers are disabled and enabled at any point;
\* records also come from a logger that is not in logger_list until
\* get_logger is called for it
NextSuppress ==
    \/ \E lv \in RecordLevels : Log(logger, DEFAULT_CONTEXT, lv, MsgFetch)
    \/ Log("late", DEFAULT_CONTEXT, ERROR, MsgFetch)
    \/ GetLogger("late")
    \/ \E d \in BOOLEAN : Enter(DEFAULT_CONTEXT, INFO, MsgProcessing, d)
    \/ ExitNormal(DEFAULT_CONTEXT)
    \/ ExitException(DEFAULT_CONTEXT, "ValueError", "boom")
    \/ DisableLoggers
    \/ EnableLoggers

SpecSuppress == Init /\ [][NextSuppress]_vars

\* One unit of work whose context message has a percent sign that starts no
\* conversion
NextPercent ==
    \/ \E lv \in RecordLevels : Log(logger, DEFAULT_CONTEXT, lv, MsgFetch)
    \/ \E lv \in RecordLevels, d \in BOOLEAN : Enter(DEFAULT_CONTEXT, lv, MsgPercent, d)
    \/ ExitNormal(DEFAULT_CONTEXT)
    \/ ExitException(DEFAULT_CONTEXT, "ValueError", "boom")

SpecPercent == Init /\ [][NextPercent]_vars

\* One unit of work with suppress_logging blocks around and inside its
\* context blocks; records also come from a logger that is not in
\* logger_list until get_logger is called for it
NextScoped ==
    \/ \E name \in {logger, "late"} : Log(name, DEFAULT_CONTEXT, ERROR, MsgFetch)
    \/ Enter(DEFAULT_CONTEXT, INFO, MsgProcessing, FALSE)
    \/ ExitNormal(DEFAULT_CONTEXT)
    \/ GetLogger("late")
    \/ SuppressEnter(DEFAULT_CONTEXT)
    \/ \E exc_type \in {None, "ValueError"} : SuppressExit(DEFAULT_CONTEXT, exc_type)

SpecScoped == Init /\ [][NextScoped]_vars

\* The failure registry: failures are recorded, reports are produced
LogOf(method) ==
    IF method = None THEN NoLog
    ELSE IF method \in Elems(ON_DISPLAY) THEN ERROR ELSE WARNING

\* what the callers pass: _get_info a step's TypeError or KeyError, html2parsed
\* a TypeError of scrape_html and no step
Failures ==
    {f \in [exception : Exceptions, method : StepNames] :
        f.method = None => f.exception = Error("TypeError")}

NextErrors ==
    \/ \E url \in URLs, f \in Failures :
           HandleParsingError(DEFAULT_CONTEXT, url, f.exception, f.method,
                              LogOf(f.method), TRUE)
    \/ \E url \in {UrlRaw} :
           HandleParsingError(DEFAULT_CONTEXT, url, Error("TypeError"), "ingredients",
                              WARNING, FALSE)
    \/ Errors2str

\* the threshold is get_stream_handler's default
InitErrors ==
    /\ tasklocal_context = [n \in {DEFAULT_CONTEXT} |-> NewContext]
    /\ log_level = WARNING
    /\ stream = <<>>
    /\ logfile = <<>>
    /\ blocks = [u \in Units |-> <<>>]
    /\ opens = [u \in Units |-> 0]
    /\ calls = <<>>
    /\ created = <<DEFAULT_CONTEXT>>
    /\ logger_list = <<logger, root_logger>>
    /\ disabled = {}
    /\ categorized_errors = <<>>
    /\ handled = <<>>
    /\ reports = <<>>
    /\ outcomes = <<>>
    /\ trace_call = NoTraceCall
    /\ counts = Counts

SpecErrors == InitErrors /\ [][NextErrors]_vars

\* The recipes of a run are written out: recipes with the status gen_status
\* gives their infos, of which at most one is NA, and the recipes of pages that
\* were not parsed
Recipes ==
    {Recipe(UrlA1, gen_status(infos).value, codes(<<"1", "4">>), infos) :
         infos \in {[i \in DOMAIN METHODS |->
                        IF i = n THEN NA
                        ELSE IF METHODS[i] = "instructions"
                             THEN codes(<<"m", "i", "x", linesep, "b", "a", "k", "e">>)
                        ELSE codes(<<"a">>) \o str(i)] : n \in 0..Len(METHODS)}}
        \cup {[UNINIT_RECIPE EXCEPT !.status = s] :
                  s \in {NOT_INITIALIZED, UNREACHABLE, UNKNOWN}}

NextOutput ==
    \E recipe \in Recipes, has_counts, md \in BOOLEAN :
        Recipe2out(DEFAULT_CONTEXT, recipe, has_counts, md)

SpecOutput == InitErrors /\ [][NextOutput]_vars

\* The extraction of pages: scrape_html and the steps succeed or raise
StepOutcomes ==
    {Returned(PyStr(codes(<<"2", " ", "e", "g", "g", "s">>))), Returned(PyStr(<<>>)),
     Returned(PyNone), Returned(PyInt(0)), Returned(PyList(<<>>)), Raised(Error("KeyError")),
     Raised(Error("SchemaOrgException")),
     Raised(Error("NotImplementedError")), Raised(Error("ValueError")),
     Raised(Error("MemoryError")), Raised(Error("KeyboardInterrupt"))}

ScrapeOutcomes ==
    {Returned("Parsed"), Raised(Error("WebsiteNotImplementedError")),
     Raised(Error("NoSchemaFoundInWildMode")), Raised(Error("TypeError")),
     Raised(Error("AttributeError")), Raised(Error("ValueError")), Raised(Error("MemoryError")),
     Raised(Error("SystemExit"))}

\* every outcome for the essential step on a page with a URL, two exceptions
\* for the other steps, one failure for a page whose URL is missing
InfoCalls ==
    {c \in [method : {"ingredients", "total_time", "nutrients"},
            data : {[url |-> UrlA1], [url |-> NoUrl]},
            step : StepOutcomes] :
        /\ c.method # "ingredients"
              => c.step \in {Raised(Error("KeyError")), Raised(Error("ValueError"))}
        /\ c.data.url # UrlA1 => c.method = "ingredients" /\ c.step = Raised(Error("KeyError"))}

ParseCalls ==
    {c \in [url : {UrlA1, UrlRaw}, step : ScrapeOutcomes] :
        c.url = UrlRaw => c.step = Raised(Error("TypeError"))}

NextExtract ==
    \/ \E c \in InfoCalls : GetInfo(DEFAULT_CONTEXT, c.method, c.data, c.step)
    \/ \E c \in ParseCalls : Html2parsed(DEFAULT_CONTEXT, c.url, c.step)
    \/ Errors2str

SpecExtract == InitErrors /\ [][NextExtract]_vars

\* What the steps return is made a str, and a parsed page is made a recipe
NextParse ==
    \/ \E method \in {"ingredients", "instructions", "total_time", "nutrients"},
          info \in {PyNone, PyInt(0), PyInt(30), PyInt(-5), PyStr(<<>>),
                   PyStr(codes(<<"2", " ", "e", "g", "g", "s">>)), PyStr(codes(<<" ">>)),
                   PyStr(codes(<<"-", "-">>)), PyStr(codes(<<"N", "o", "n", "e">>)),
                   PyStr(codes(<<"m", "i", "x", linesep, linesep, "b">>)),
                   \* U+00E9, U+03C9, U+4E2D and U+2153 (word characters); U+00D7 and
                   \* the no-break space U+00A0 (none)
                   PyStr(<<233>>), PyStr(<<969>>), PyStr(<<20013>>), PyStr(<<8531>>),
                   PyStr(<<215>>), PyStr(<<160>>), PyList(<<>>),
                   PyList(<<codes(<<"2", " ", "e", "g", "g", "s">>),
                            codes(<<"s", "a", "l", "t">>)>>),
                   PyList(<<codes(<<"a">>), codes(<<",">>), <<>>, codes(<<"b">>)>>),
                   PyDict(<<>>),
                   PyDict(<<[key |-> codes(<<"f", "a", "t">>),
                             val |-> codes(<<"1", " ", "g">>)]>>)} :
           Info2str(DEFAULT_CONTEXT, method, info)
    \/ Parsed2recipe(DEFAULT_CONTEXT, [url |-> UrlA1])

SpecParse == InitErrors /\ [][NextParse]_vars

\* get_shared_frames applied to the stacks of generated traces; it keeps no
\* state between calls
NextTraces ==
    \E tb_ex_list \in TbExLists : GetSharedFrames(tb_ex_list)

SpecTraces == InitErrors /\ [][NextTraces]_vars

\* ------------------------------------------------------------------------
\* Helpers of the properties
\* ------------------------------------------------------------------------
Last(cs) == cs[Len(cs)]
\* the annotation that names a context whose message was given without
\* arguments: "While <message, first character in lower case>:", a line
\* break and a tab
PrefixText(msg) == "While " \o Lower(msg[1]) \o Raw(Tail(msg)) \o ":" \o linesep \o "\t"
Called == Len(calls') = Len(calls) + 1
NewEntries == SubSeq(stream', Len(stream) + 1, Len(stream'))
IsPrefix(a, b) == Len(a) <= Len(b) /\ SubSeq(b, 1, Len(a)) = a
Ids(seq) == {seq[i].id : i \in DOMAIN seq}
IdSeq(seq) == [i \in DOMAIN seq |-> seq[i].id]
\* the stream goes on with the records of queue, in the queue's order
Flushed(queue) ==
    /\ IsPrefix(stream, stream')
    /\ IsPrefix(IdSeq(stream) \o IdSeq(queue), IdSeq(stream'))
HasContext(u) == u \in DOMAIN tasklocal_context /\ tasklocal_context[u].with_context
Qualifies(k) == k.level <= k.record.levelno
\* the call that opened context number cid of unit u
OpenCall(u, cid) ==
    CHOOSE k \in {calls[i] : i \in DOMAIN calls} :
        k.record.unit = u /\ k.record.cid = cid /\ k.record.is_context = PyTrue
\* index of the unit's latest open- or close-tagged call among cs, 0 if none
LastTagIdx(cs, u) ==
    LET S == {i \in DOMAIN cs : cs[i].unit = u /\ cs[i].record.is_context # None}
    IN  IF S = {} THEN 0 ELSE CHOOSE i \in S : \A j \in S : j <= i

\* ------------------------------------------------------------------------
\* C1: in a non-deferred context whose opening record was below the
\* threshold, exactly the first emitted ordinary record carries the
\* "While <context>:" prefix and every later one the single tab.
\* ------------------------------------------------------------------------
InPlainContext(e) ==
    /\ e.cid > 0
    /\ calls[e.id].record.is_context = None
    /\ OpenCall(e.unit, e.cid).record.msg # DO_NOT_LOG
    /\ ~OpenCall(e.unit, e.cid).record.defer_emit
    /\ ~Qualifies(OpenCall(e.unit, e.cid))

C1_PrefixOnFirstOnly ==
    \A j \in DOMAIN stream :
        InPlainContext(stream[j]) =>
            stream[j].ctx =
                IF \E i \in 1..(j - 1) : /\ stream[i].unit = stream[j].unit
                                         /\ stream[i].cid = stream[j].cid
                THEN "\t"
                ELSE PrefixText(OpenCall(stream[j].unit, stream[j].cid).record.msg)

\* ------------------------------------------------------------------------
\* C2: while a unit's context defers, none of its records reaches the stream;
\* the close hands the whole queue to the stream, in order, and leaves the
\* Context empty; no record is in the stream twice or in stream and queue.
\* ------------------------------------------------------------------------
C2_Step ==
    LET k == Last(calls')
        u == k.unit
        c == tasklocal_context[u]
        c2 == tasklocal_context'[u]
    IN  (Called /\ HasContext(u) /\ c.defer_emit) =>
            /\ k.record.is_context = PyFalse =>
                   /\ Flushed(c.deferred_records)
                   /\ \A e \in Ids(NewEntries) :
                          e \in Ids(c.deferred_records) \cup {k.record.id}
                   /\ c2 = NewContext
            /\ k.record.is_context = None =>
                   /\ stream' = stream
                   /\ IsPrefix(c.deferred_records, c2.deferred_records)
            /\ k.record.is_context = PyTrue =>
                   /\ IsPrefix(c.deferred_records, c2.deferred_records)
                   /\ c2.defer_emit => stream' = stream
            /\ \A i, j \in DOMAIN stream' : stream'[i].id = stream'[j].id => i = j
            /\ Ids(stream') \cap Ids(c2.deferred_records) = {}

C2_DeferredUntilClose == [][C2_Step]_vars

\* ------------------------------------------------------------------------
\* C3: a close that follows a close of the same unit, with no open in
\* between, flushes nothing, emits at most its own record (nothing when it
\* is the sentinel) and finds and leaves the Context empty.
\* ------------------------------------------------------------------------
SecondClose(cs) ==
    /\ Len(cs) >= 2
    /\ Last(cs).record.is_context = PyFalse
    /\ LET i == LastTagIdx(SubSeq(cs, 1, Len(cs) - 1), Last(cs).unit)
       IN  i > 0 /\ cs[i].record.is_context = PyFalse

C3_Step ==
    (Called /\ SecondClose(calls')) =>
        LET k == Last(calls')
        IN  /\ k.flushed = 0
            /\ \A id \in Ids(NewEntries) : id = k.record.id
            /\ k.record.msg = DO_NOT_LOG => stream' = stream
            /\ tasklocal_context[k.unit] = NewContext
            /\ tasklocal_context'[k.unit] = NewContext

C3_CloseIdempotent == [][C3_Step]_vars

C3_Witness ==
    /\ SecondClose(calls)
    /\ LET i == LastTagIdx(SubSeq(calls, 1, Len(calls) - 1), Last(calls).unit)
       IN  calls[i].flushed > 0

\* ------------------------------------------------------------------------
\* C4: whenever no context is open, triggered is false, defer_emit is false
\* and the deferred queue is empty.
\* ------------------------------------------------------------------------
C4_IdleIsEmpty ==
    \A u \in DOMAIN tasklocal_context :
        ~tasklocal_context[u].with_context =>
            /\ ~tasklocal_context[u].triggered
            /\ ~tasklocal_context[u].defer_emit
            /\ tasklocal_context[u].deferred_records = <<>>

C4_Witness ==
    /\ calls # <<>>
    /\ Last(calls).op = "exit_exc"
    /\ Last(calls).flushed = 1
    /\ ~tasklocal_context[Last(calls).unit].with_context
    /\ \E i \in DOMAIN calls : calls[i].op = "enter" /\ Qualifies(calls[i])

\* ------------------------------------------------------------------------
\* C5: open (non-deferred, below the threshold), one record below the
\* threshold, one qualifying record, normal close: the stream holds exactly
\* the qualifying record, with the context prefix; the record below the
\* threshold is not emitted and changes nothing of the Context.
\* ------------------------------------------------------------------------
Scenario(cs, n) ==
    /\ Len(cs) = n
    /\ n >= 1 => /\ cs[1].op = "enter"
                 /\ ~cs[1].record.defer_emit
                 /\ ~Qualifies(cs[1])
    /\ n >= 2 => /\ cs[2].op = "log"
                 /\ cs[2].record.msg # DO_NOT_LOG
                 /\ ~Qualifies(cs[2])
    /\ n >= 3 => /\ cs[3].op = "log"
                 /\ cs[3].record.msg # DO_NOT_LOG
                 /\ Qualifies(cs[3])
    /\ n >= 4 => cs[4].op = "exit"

C5_Step ==
    /\ (Called /\ Scenario(calls', 2)) =>
           /\ stream' = stream
           /\ tasklocal_context' = tasklocal_context
    /\ Scenario(calls', 4) =>
           /\ Len(stream') = 1
           /\ stream'[1].id = calls'[3].record.id
           /\ stream'[1].message = Raw(calls'[3].record.msg)
           /\ stream'[1].ctx = PrefixText(calls'[1].record.msg)

C5_ScenarioOutput == [][C5_Step]_vars

\* ------------------------------------------------------------------------
\* C6: a logging call of one task leaves every other task's Context as it
\* is, and what it emits are the task's own records, annotated with nothing,
\* the tab, or the task's own context message.
\* ------------------------------------------------------------------------
C6_Step ==
    Called =>
        LET u == Last(calls').unit
        IN  /\ \A v \in DOMAIN tasklocal_context \ {u} :
                   tasklocal_context'[v] = tasklocal_context[v]
            /\ \A j \in DOMAIN NewEntries :
                   /\ NewEntries[j].unit = u
                   /\ NewEntries[j].ctx \in
                          {"", "\t", PrefixText(CtxMsgOf(u))}

C6_TaskIsolation == [][C6_Step]_vars

C6_Witness ==
    /\ HasContext(Task1) /\ HasContext(Task2)
    /\ tasklocal_context[Task1].deferred_records # <<>>
    /\ Last(calls).unit = Task2
    /\ Last(calls).ret
    /\ stream # <<>>
    /\ Last(stream).ctx = PrefixText(CtxMsgOf(Task2))

\* ------------------------------------------------------------------------
\* C7: the records deferred within a context of a unit reach the stream
\* before any record of a context opened later on that unit.
\* ------------------------------------------------------------------------
WasDeferred(e) == ~calls[e.id].ret

C7_DeferredBeforeLaterContext ==
    /\ \A i, j \in DOMAIN stream :
           (i < j /\ stream[i].unit = stream[j].unit /\ WasDeferred(stream[j]))
               => stream[i].cid <= stream[j].cid
    /\ \A u \in DOMAIN tasklocal_context :
           \A q \in DOMAIN tasklocal_context[u].deferred_records :
               \A i \in DOMAIN stream :
                   stream[i].unit = u =>
                       stream[i].cid <= tasklocal_context[u].deferred_records[q].cid

\* ------------------------------------------------------------------------
\* C8: no record whose message is DO_NOT_LOG is in the stream or in the log
\* file, and a close-tagged DO_NOT_LOG record has closed the context.
\* ------------------------------------------------------------------------
C8_SentinelNeverEmitted ==
    /\ \A i \in DOMAIN stream : calls[stream[i].id].record.msg # DO_NOT_LOG
    /\ \A i \in DOMAIN logfile : calls[logfile[i].id].record.msg # DO_NOT_LOG
    /\ (calls # <<>> /\ Last(calls).record.msg = DO_NOT_LOG
            /\ Last(calls).record.is_context = PyFalse)
           => tasklocal_context[Last(calls).unit] = NewContext

\* ------------------------------------------------------------------------
\* C9: with no context open for the calling unit, an ordinary record (one
\* with a message of its own, not the sentinel) is emitted at once iff its
\* level is at or above the threshold, with the empty prefix, and the
\* Context stays as it is.
\* ------------------------------------------------------------------------
C9_Step ==
    LET k == Last(calls')
        u == k.unit
    IN  (Called /\ k.record.is_context = None /\ k.record.msg # DO_NOT_LOG
            /\ ~HasContext(u)) =>
            /\ k.record.levelno >= log_level =>
                   /\ Len(stream') = Len(stream) + 1
                   /\ IsPrefix(stream, stream')
                   /\ Last(stream').id = k.record.id
                   /\ Last(stream').ctx = ""
                   /\ Last(stream').message = Raw(k.record.msg)
            /\ k.record.levelno < log_level => stream' = stream
            /\ tasklocal_context'[u] =
                   IF u \in DOMAIN tasklocal_context THEN tasklocal_context[u]
                   ELSE NewContext
            /\ \A v \in DOMAIN tasklocal_context : tasklocal_context'[v] = tasklocal_context[v]

C9_NoContextPassThrough == [][C9_Step]_vars

C9_Witness ==
    /\ Len(calls) >= 2
    /\ Last(calls).op = "log"
    /\ Last(calls).ret
    /\ ~HasContext(Last(calls).unit)
    /\ Last(calls).level = Last(calls).record.levelno
    /\ calls[Len(calls) - 1].op = "exit"
    /\ Last(stream).ctx = ""

\* ------------------------------------------------------------------------
\* C10: errors2str returns one report for each (site, step, kind) recorded,
\* and each report lists the URLs recorded under its triple, in the order
\* recorded, and no other URL.
\* ------------------------------------------------------------------------
SiteOf(url) == IF hostname(url) = <<>> THEN UrlLabels(url) ELSE hostname(url)
StepOf(method) == IF method = None THEN GENERAL_PARSING_ERROR ELSE method
TripleOf(h) == <<SiteOf(h.url), StepOf(h.method), h.exception.name>>
Triples == {TripleOf(handled[i]) : i \in {j \in DOMAIN handled : handled[j].save_error}}

UrlsRecorded(t) ==
    LET Under(h) == h.save_error /\ TripleOf(h) = t
        hs == SelectSeq(handled, Under)
    IN  [i \in DOMAIN hs |-> hs[i].url]

ReportOf(r, t) ==
    /\ r.urls = UrlsRecorded(t)
    /\ r.exception = t[3]
    /\ r.triggered_by = IF t[2] = GENERAL_PARSING_ERROR THEN "scrape_html()"
                        ELSE "." \o t[2] \o "()"

C10_OneReportPerBucket ==
    LET R == errors2str(categorized_errors)
    IN  /\ Len(R) = Cardinality(Triples)
        /\ \A t \in Triples : Cardinality({i \in DOMAIN R : ReportOf(R[i], t)}) = 1
        /\ \A i \in DOMAIN R : \E t \in Triples : ReportOf(R[i], t)
        /\ \A i \in DOMAIN R : \A a, b \in DOMAIN R[i].urls :
               SiteOf(R[i].urls[a]) = SiteOf(R[i].urls[b])

C10_Witness ==
    /\ Len(reports) = 2
    /\ reports = errors2str(categorized_errors)
    /\ \E i \in DOMAIN reports : reports[i].urls = <<UrlA1, UrlA2>>
    /\ \E i \in DOMAIN reports : reports[i].urls = <<UrlB>>

\* ------------------------------------------------------------------------
\* Helpers of the properties on extraction
\* ------------------------------------------------------------------------
NewOutcome(op) == Len(outcomes') = Len(outcomes) + 1 /\ Last(outcomes').op = op
RaisedIn(o) == o.step.kind = "raise"
\* the Captured Failures of a bucket, <<>> when the registry has no such bucket
Bucket(reg, host, method, kind) ==
    IF DictHas(reg, host) /\ DictHas(DictGet(reg, host), method)
          /\ DictHas(DictGet(DictGet(reg, host), method), kind)
    THEN DictGet(DictGet(DictGet(reg, host), method), kind)
    ELSE <<>>
\* the number of Captured Failures in the registry
RECURSIVE SumUrls(_)
SumUrls(rs) == IF rs = <<>> THEN 0 ELSE Len(Head(rs).urls) + SumUrls(Tail(rs))
RegCount(reg) == SumUrls(errors2str(reg))
NotFatal(e) == e.name \notin {"KeyboardInterrupt", "SystemExit", "MemoryError"}
Unsupported(e) == e.name \in {"WebsiteNotImplementedError", "NoSchemaFoundInWildMode"}

\* ------------------------------------------------------------------------
\* C11: an exception of an extraction step other than KeyboardInterrupt,
\* SystemExit and MemoryError does not leave _get_info; it is logged and it
\* is recorded: its bucket (site, step, kind) has one Captured Failure more.
\* ------------------------------------------------------------------------
C11_Step ==
    LET o == Last(outcomes')
    IN  (NewOutcome("_get_info") /\ RaisedIn(o) /\ NotFatal(o.step.exception)) =>
            /\ o.raised = None
            /\ Len(calls') > Len(calls)
            /\ Len(handled') = Len(handled) + 1
            /\ LET h == Last(handled')
                   b == Bucket(categorized_errors, SiteOf(h.url), h.method, h.exception.name)
                   b2 == Bucket(categorized_errors', SiteOf(h.url), h.method, h.exception.name)
               IN  /\ h.exception = o.step.exception
                   /\ h.method = replace_underscore(o.method)
                   /\ b2 = Append(b, ParsingError(h.url, h.exception))

C11_StepFailuresRecorded == [][C11_Step]_vars

\* ------------------------------------------------------------------------
\* C12: an exception of scrape_html that is neither an unsupported-site
\* error nor fatal does not leave html2parsed; it is logged, recorded in the
\* bucket (site, "general parsing error", kind), and html2parsed returns None.
\* ------------------------------------------------------------------------
C12_Step ==
    LET o == Last(outcomes')
    IN  (NewOutcome("html2parsed") /\ RaisedIn(o) /\ NotFatal(o.step.exception)
            /\ ~Unsupported(o.step.exception)) =>
            /\ o.raised = None
            /\ o.ret = None
            /\ Len(calls') > Len(calls)
            /\ Bucket(categorized_errors', SiteOf(o.url), GENERAL_PARSING_ERROR,
                      o.step.exception.name)
                 = Append(Bucket(categorized_errors, SiteOf(o.url), GENERAL_PARSING_ERROR,
                                 o.step.exception.name),
                          ParsingError(o.url, o.step.exception))

C12_ParseCrashRecorded == [][C12_Step]_vars

\* ------------------------------------------------------------------------
\* C13: KeyboardInterrupt, SystemExit and MemoryError raised by scrape_html
\* or by an extraction step leave html2parsed and _get_info, and the failure
\* registry is as it was before the call.
\* ------------------------------------------------------------------------
C13_Step ==
    LET o == Last(outcomes')
    IN  ((NewOutcome("html2parsed") \/ NewOutcome("_get_info")) /\ RaisedIn(o)
            /\ ~NotFatal(o.step.exception)) =>
            /\ o.raised = o.step.exception.name
            /\ categorized_errors' = categorized_errors
            /\ handled' = handled

C13_FatalPropagates == [][C13_Step]_vars

C13_Witness ==
    /\ Len(outcomes) = 2
    /\ outcomes[1].op = "html2parsed" /\ outcomes[1].step = Raised(Error("TypeError"))
    /\ outcomes[2].op = "_get_info" /\ outcomes[2].raised = "MemoryError"
    /\ RegCount(categorized_errors) = 1

\* ------------------------------------------------------------------------
\* C14: for WebsiteNotImplementedError and NoSchemaFoundInWildMode
\* html2parsed logs one record at error level, leaves the failure registry
\* (and so the reports) as they were and returns None.
\* ------------------------------------------------------------------------
C14_Step ==
    LET o == Last(outcomes')
    IN  (NewOutcome("html2parsed") /\ RaisedIn(o) /\ Unsupported(o.step.exception)) =>
            /\ o.raised = None
            /\ o.ret = None
            /\ Len(calls') = Len(calls) + 1
            /\ Last(calls').record.levelno = ERROR
            /\ Last(calls').record.exc_info = None
            /\ categorized_errors' = categorized_errors
            /\ handled' = handled
            /\ errors2str(categorized_errors') = errors2str(categorized_errors)

C14_UnsupportedSiteSkipped == [][C14_Step]_vars

C14_Witness ==
    /\ Len(outcomes) = 2
    /\ outcomes[2].op = "html2parsed"
    /\ outcomes[2].step = Raised(Error("NoSchemaFoundInWildMode"))
    /\ outcomes[2].ret = None
    /\ RegCount(categorized_errors) = 1
    /\ Last(stream).message = "Unknown Website. Extraction not supported"


\* ------------------------------------------------------------------------
\* C15: for two or more stacks of any lengths get_shared_frames returns the
\* longest common prefix: each returned frame is the frame at its index in
\* every stack, the result is no longer than any stack, and right after it
\* some stack ends or two stacks differ.
\* ------------------------------------------------------------------------
C15_SharedFramesIsLongestPrefix ==
    trace_call.op = "get_shared_frames" =>
        LET r == trace_call.ret
            stacks == trace_call.tb_ex_list
        IN  /\ \A k \in DOMAIN stacks : Len(r) <= Len(stacks[k])
            /\ \A i \in DOMAIN r : \A k \in DOMAIN stacks : r[i] = stacks[k][i]
            /\ \/ \E k \in DOMAIN stacks : Len(stacks[k]) = Len(r)
               \/ \E j, k \in DOMAIN stacks :
                      stacks[j][Len(r) + 1] # stacks[k][Len(r) + 1]

C15_Witness ==
    /\ trace_call.op = "get_shared_frames"
    /\ trace_call.tb_ex_list
           = <<(<<Frame(1), Frame(2)>>), (<<Frame(1)>>), (<<Frame(1), Frame(2)>>)>>
    /\ trace_call.ret = <<Frame(1)>>


\* ------------------------------------------------------------------------
\* C16: the title of a bucket's report is "<site>: <step> - <kind> (found by
\* recipe2txt)", <site> being the bucket's host without a leading "www.".
\* ------------------------------------------------------------------------
TitleOf(t) ==
    JoinWith(IF Len(t[1]) >= 2 /\ t[1][1] = "www" THEN Tail(t[1]) ELSE t[1], ".")
        \o ": " \o t[2] \o " - " \o t[3] \o " (found by recipe2txt)"

C16_TitleNamesSite ==
    LET R == errors2str(categorized_errors)
    IN  \A i \in DOMAIN R : \A t \in Triples :
            ReportOf(R[i], t) => R[i].title = TitleOf(t)


\* ------------------------------------------------------------------------
\* C17: when an exception leaves a QueueContextManager block, the unit's
\* Context ends empty, an error record naming the context and the exception
\* is logged and, the threshold being at or below ERROR, is the last entry of
\* the stream, and the exception goes on to the caller.
\* ------------------------------------------------------------------------
C17_Step ==
    (NewOutcome("__exit__") /\ Last(outcomes').exc_type # None) =>
        LET k == Last(calls')
            o == Last(outcomes')
            u == o.unit
            left == blocks[u][Len(blocks[u])]
        IN  /\ Called /\ k.op = "exit_exc" /\ k.unit = u
            /\ tasklocal_context'[u] = NewContext
            /\ k.record.levelno = ERROR
            /\ Raw(k.record.msg) = "Leaving context '" \o Raw(left)
                                       \o "' because of exception <class '"
                                       \o o.exc_type \o "'>: boom"
            /\ Last(logfile').id = k.record.id
            /\ log_level <= ERROR =>
                   /\ Len(stream') = Len(stream) + k.flushed + 1
                   /\ Last(stream').id = k.record.id
                   /\ Last(stream').message = Raw(k.record.msg)
            /\ ~o.ret
            /\ o.raised = o.exc_type

C17_ExceptionExitClosesAndPropagates == [][C17_Step]_vars

\* ------------------------------------------------------------------------
\* C19: a Context is Idle, Open-Untriggered or Open-Triggered, and a logging
\* call moves it only from Idle to Open-Untriggered (an open: the message and
\* its arguments are stored), from Open-Untriggered to Open-Triggered (the
\* first ordinary record at or above the threshold) or from an Open state to
\* Idle (a close); these calls do move it so, and no call moves it otherwise.
\* ------------------------------------------------------------------------
StateOf(c) ==
    IF ~c.with_context THEN "Idle"
    ELSE IF c.triggered THEN "Open-Triggered" ELSE "Open-Untriggered"

C19_Step ==
    Called =>
        LET k == Last(calls')
            u == k.unit
            c == IF u \in DOMAIN tasklocal_context THEN tasklocal_context[u]
                 ELSE NewContext
            c2 == tasklocal_context'[u]
            open == k.record.is_context = PyTrue
            close == k.record.is_context = PyFalse
            qualifying == /\ k.record.is_context = None
                          /\ k.record.msg # DO_NOT_LOG
                          /\ Qualifies(k)
        IN  /\ (StateOf(c) = "Idle" /\ open) =>
                   /\ StateOf(c2) = "Open-Untriggered"
                   /\ c2.context_msg = k.record.msg
                   /\ c2.context_args = k.record.args
            /\ (StateOf(c) = "Open-Untriggered" /\ qualifying) =>
                   StateOf(c2) = "Open-Triggered"
            /\ (StateOf(c) # "Idle" /\ close) => StateOf(c2) = "Idle"
            /\ StateOf(c2) # StateOf(c) =>
                   \/ StateOf(c) = "Idle" /\ StateOf(c2) = "Open-Untriggered" /\ open
                   \/ /\ StateOf(c) = "Open-Untriggered"
                      /\ StateOf(c2) = "Open-Triggered" /\ qualifying
                   \/ StateOf(c) # "Idle" /\ StateOf(c2) = "Idle" /\ close

C19_OnlyListedTransitions == [][C19_Step]_vars


\* ------------------------------------------------------------------------
\* C20: an open on a unit whose context is open and has queued records
\* either flushes the queue (the queued records go to the stream, in order,
\* and leave the queue) or is rejected (the Context and the stream stay as
\* they are); no record is in the stream twice or in stream and queue.
\* ------------------------------------------------------------------------
C20_Step ==
    LET k == Last(calls')
        u == k.unit
        c == tasklocal_context[u]
        c2 == tasklocal_context'[u]
    IN  (Called /\ k.record.is_context = PyTrue /\ HasContext(u)
            /\ k.record.msg # DO_NOT_LOG
            /\ c.deferred_records # <<>>
            /\ \A q \in DOMAIN c.deferred_records :
                   c.deferred_records[q].msg # DO_NOT_LOG) =>
            /\ \/ /\ Flushed(c.deferred_records)
                  /\ Ids(c.deferred_records) \cap Ids(c2.deferred_records) = {}
               \/ /\ c2 = c
                  /\ stream' = stream
            /\ \A i, j \in DOMAIN stream' : stream'[i].id = stream'[j].id => i = j
            /\ Ids(stream') \cap Ids(c2.deferred_records) = {}

C20_ReopenFlushesOrRejects == [][C20_Step]_vars

\* ------------------------------------------------------------------------
\* C21: the registry maps each unit-of-work identity to exactly one Context.
\* A record logged outside a task is handled by the Context the filter was
\* built with; an entry is made on the first reference to an identity and is
\* never removed or replaced (a close resets it); the same unit always
\* obtains the same Context and two units never obtain the same one.
\* ------------------------------------------------------------------------
C21_Registry ==
    /\ DEFAULT_CONTEXT \in DOMAIN tasklocal_context
    /\ DOMAIN tasklocal_context = {created[i] : i \in DOMAIN created}
    /\ \A i, j \in DOMAIN created : created[i] = created[j] => i = j
    /\ \A i \in DOMAIN calls :
           /\ calls[i].context = ContextOf(created, calls[i].unit)
           /\ calls[i].unit = DEFAULT_CONTEXT => calls[i].context = 1
    /\ \A i, j \in DOMAIN calls :
           calls[i].unit = calls[j].unit <=> calls[i].context = calls[j].context

C21_Step ==
    /\ IsPrefix(created, created')
    /\ DOMAIN tasklocal_context \subseteq DOMAIN tasklocal_context'
    /\ created' # created =>
           /\ Called
           /\ created' = Append(created, Last(calls').unit)
           /\ Last(calls').unit \notin DOMAIN tasklocal_context
    /\ (Called /\ Last(calls').record.is_context = PyFalse) =>
           tasklocal_context'[Last(calls').unit] = NewContext

C21_OneContextPerUnit == []C21_Registry /\ [][C21_Step]_vars

\* Task-1 has logged again after its context was closed and code outside
\* the tasks has logged in between
C21_Witness ==
    /\ created = <<DEFAULT_CONTEXT, Task1>>
    /\ \E i, j, k \in DOMAIN calls :
           /\ i < j /\ j < k
           /\ calls[i].unit = Task1 /\ calls[i].record.is_context = PyTrue
           /\ calls[j].unit = Task1 /\ calls[j].record.is_context = PyFalse
           /\ calls[k].unit = Task1 /\ calls[k].context = calls[i].context
    /\ \E i \in DOMAIN calls : calls[i].unit = DEFAULT_CONTEXT /\ calls[i].context = 1

\* ------------------------------------------------------------------------
\* C22: in a non-deferred context whose opening record met the threshold,
\* every later qualifying record until the close is emitted with the single
\* tab as its prefix, never with "While <context>:".
\* ------------------------------------------------------------------------
InTriggeredContext(k) ==
    /\ k.record.cid > 0
    /\ k.record.is_context = None
    /\ ~OpenCall(k.unit, k.record.cid).record.defer_emit
    /\ Qualifies(OpenCall(k.unit, k.record.cid))

C22_TabInTriggeredContext ==
    \A i \in DOMAIN calls :
        (InTriggeredContext(calls[i]) /\ Qualifies(calls[i])
            /\ calls[i].record.msg # DO_NOT_LOG) =>
            /\ calls[i].ret
            /\ \E j \in DOMAIN stream : stream[j].id = i /\ stream[j].ctx = "\t"

\* two records were emitted in such a context
C22_Witness ==
    \E i, j \in DOMAIN calls :
        /\ i < j
        /\ calls[i].record.cid = calls[j].record.cid
        /\ InTriggeredContext(calls[i]) /\ Qualifies(calls[i])
        /\ InTriggeredContext(calls[j]) /\ Qualifies(calls[j])
        /\ calls[i].record.msg = MsgFetch /\ calls[j].record.msg = MsgFetch
        /\ OpenCall(calls[i].unit, calls[i].record.cid).record.msg = MsgProcessing
        /\ \E a, b \in DOMAIN stream : stream[a].id = i /\ stream[b].id = j

\* ------------------------------------------------------------------------
\* C23: the flush at a close is unconditional.  Every record of the queue
\* is handed to the stream handler in the queue's order, whatever the
\* threshold is at the time of the close, and none stays queued.
\* ------------------------------------------------------------------------
C23_Step ==
    LET k == Last(calls')
        u == k.unit
    IN  (Called /\ k.record.is_context = PyFalse /\ u \in DOMAIN tasklocal_context) =>
            /\ Flushed(tasklocal_context[u].deferred_records)
            /\ k.flushed = Len(tasklocal_context[u].deferred_records)
            /\ tasklocal_context'[u].deferred_records = <<>>

C23_FlushUnconditional == [][C23_Step]_vars

\* ------------------------------------------------------------------------
\* C24: when a context is left because of an exception, its deferred queue
\* is discarded: none of the records queued in it reaches the stream, and
\* the queue is empty afterwards.
\* ------------------------------------------------------------------------
C24_Step ==
    LET k == Last(calls')
        u == k.unit
    IN  (Called /\ k.op = "exit_exc" /\ HasContext(u)
            /\ \A q \in DOMAIN tasklocal_context[u].deferred_records :
                   tasklocal_context[u].deferred_records[q].msg # DO_NOT_LOG) =>
            /\ Ids(NewEntries) \cap Ids(tasklocal_context[u].deferred_records) = {}
            /\ tasklocal_context'[u].deferred_records = <<>>

C24_AbandonDiscardsQueue == [][C24_Step]_vars

\* ------------------------------------------------------------------------
\* C25: the reports are insertion-ordered.  The URLs of a report are in the
\* order their failures were recorded, and errors2str yields the reports in
\* bucket order: the sites in the order of their first recorded failure,
\* within a site the steps in the order of their first recording, within a
\* step the kinds in the order of their first recording.  The sequence of
\* the reports is so determined by the sequence of the recorded failures.
\* ------------------------------------------------------------------------
\* the index of the first recorded failure that agrees with t on n parts
FirstRecorded(t, n) ==
    LET S == {i \in DOMAIN handled :
                 /\ handled[i].save_error
                 /\ \A p \in 1..n : TripleOf(handled[i])[p] = t[p]}
    IN  CHOOSE i \in S : \A j \in S : i <= j

BucketBefore(t1, t2) ==
    \/ FirstRecorded(t1, 1) < FirstRecorded(t2, 1)
    \/ /\ t1[1] = t2[1]
       /\ \/ FirstRecorded(t1, 2) < FirstRecorded(t2, 2)
          \/ /\ t1[2] = t2[2]
             /\ FirstRecorded(t1, 3) < FirstRecorded(t2, 3)

C25_ReportsInsertionOrdered ==
    LET R == errors2str(categorized_errors)
        T(i) == CHOOSE t \in Triples : ReportOf(R[i], t)
    IN  /\ \A i \in DOMAIN R : R[i].urls = UrlsRecorded(T(i))
        /\ \A i, j \in DOMAIN R : i < j => BucketBefore(T(i), T(j))

\* a site's second bucket was recorded after another site's failure and is
\* reported before it
C25_Witness ==
    /\ Len(handled) = 3
    /\ SiteOf(handled[1].url) = SiteOf(handled[3].url)
    /\ SiteOf(handled[2].url) # SiteOf(handled[1].url)
    /\ TripleOf(handled[1]) # TripleOf(handled[3])
    /\ reports = errors2str(categorized_errors)
    /\ Len(reports) = 3
    /\ reports[2].urls = <<handled[3].url>>
    /\ reports[3].urls = <<handled[2].url>>

\* ------------------------------------------------------------------------
\* C26: a handle_parsing_error call with save_error true appends exactly
\* one Captured Failure to exactly one bucket, the one keyed (site of the
\* URL, step or "general parsing error", name of the exception's type), and
\* leaves every other bucket as it is; nothing removes a failure, so the
\* bucket sizes always add up to the number of such calls.
\* ------------------------------------------------------------------------
\* the keys of the buckets of a registry
BucketKeys(reg) ==
    UNION {UNION {{<<reg[i].key, reg[i].val[j].key, reg[i].val[j].val[k].key>> :
                      k \in DOMAIN reg[i].val[j].val} :
                  j \in DOMAIN reg[i].val} :
           i \in DOMAIN reg}

BucketOf(reg, t) == Bucket(reg, t[1], t[2], t[3])

RECURSIVE SumOfSizes(_, _)
SumOfSizes(reg, keys) ==
    IF keys = {} THEN 0
    ELSE LET t == CHOOSE x \in keys : TRUE
         IN  Len(BucketOf(reg, t)) + SumOfSizes(reg, keys \ {t})

C26_Count ==
    SumOfSizes(categorized_errors, BucketKeys(categorized_errors))
        = Cardinality({i \in DOMAIN handled : handled[i].save_error})

C26_Step ==
    /\ \A t \in BucketKeys(categorized_errors) :
           IsPrefix(BucketOf(categorized_errors, t), BucketOf(categorized_errors', t))
    /\ (Len(handled') = Len(handled) + 1 /\ Last(handled').save_error) =>
           LET h == Last(handled')
               t == TripleOf(h)
           IN  /\ BucketOf(categorized_errors', t)
                      = Append(BucketOf(categorized_errors, t),
                               ParsingError(h.url, h.exception))
               /\ h.ret = <<ParsingError(h.url, h.exception)>>
               /\ BucketKeys(categorized_errors') = BucketKeys(categorized_errors) \cup {t}
               /\ \A t2 \in BucketKeys(categorized_errors') \ {t} :
                      BucketOf(categorized_errors', t2) = BucketOf(categorized_errors, t2)
    /\ (Len(handled') = Len(handled) + 1 /\ ~Last(handled').save_error) =>
           categorized_errors' = categorized_errors

C26_OneAppendPerCall == []C26_Count /\ [][C26_Step]_vars

\* two failures in one bucket, and a call that was told not to save
C26_Witness ==
    /\ Len(handled) = 3
    /\ \E i \in DOMAIN handled : ~handled[i].save_error
    /\ \E t \in BucketKeys(categorized_errors) : Len(BucketOf(categorized_errors, t)) = 2

\* ------------------------------------------------------------------------
\* C27: the record that reports a failed extraction step has the level
\* ERROR if the step is essential (ingredients, instructions) and the level
\* WARNING for every other step.
\* ------------------------------------------------------------------------
StepFailureMsgs ==
    {<<"N", "o ", "%s", " found: ">>, <<"%s", " not implemented for this website">>,
     <<"E", "xtraction error for attribute ", "%s", ":">>}

C27_Step ==
    LET o == Last(outcomes')
        new == {i \in (Len(calls) + 1)..Len(calls') :
                   calls'[i].record.msg \in StepFailureMsgs}
    IN  (NewOutcome("_get_info") /\ RaisedIn(o) /\ o.raised = None) =>
            /\ new # {}
            /\ \A i \in new :
                   calls'[i].record.levelno =
                       IF o.method \in Elems(ESSENTIAL) THEN ERROR ELSE WARNING

C27_ErrorIffEssential == [][C27_Step]_vars

\* ------------------------------------------------------------------------
\* C28: the threshold is the same from a context's open to its close.  A
\* set_level call made while any unit's context is open leaves the threshold
\* as it is, one made while no context is open sets it, and the call returns
\* the threshold in force after it.
\* ------------------------------------------------------------------------
AnyContextOpen == \E u \in DOMAIN tasklocal_context : tasklocal_context[u].with_context

C28_Step ==
    LET o == Last(outcomes')
    IN  /\ AnyContextOpen => log_level' = log_level
        /\ NewOutcome("set_level") =>
               /\ o.ret = log_level'
               /\ ~AnyContextOpen => log_level' = o.log_level

C28_LevelFixedInContext == [][C28_Step]_vars

\* ------------------------------------------------------------------------
\* C29: the threshold is applied to a record when it is observed, also in a
\* deferred context.  A record below the threshold is neither emitted nor
\* queued, so every queued record and every emitted record had a level at
\* or above the threshold in force when it was observed.
\* ------------------------------------------------------------------------
Queued ==
    UNION {Ids(tasklocal_context[u].deferred_records) : u \in DOMAIN tasklocal_context}

C29_ThresholdAtObservation ==
    /\ \A i \in Queued \cup Ids(stream) : Qualifies(calls[i])
    /\ \A i \in DOMAIN calls :
           ~Qualifies(calls[i]) => ~calls[i].ret /\ i \notin Queued \cup Ids(stream)

\* in one deferred context a record below the threshold was dropped and a
\* record at the threshold was queued and then flushed by the close
C29_Witness ==
    \E i, j, k \in DOMAIN calls :
        /\ i < j /\ j < k
        /\ calls[i].record.is_context = None /\ calls[j].record.is_context = None
        /\ calls[i].record.cid > 0 /\ calls[i].record.cid = calls[j].record.cid
        /\ OpenCall(calls[i].unit, calls[i].record.cid).record.defer_emit
        /\ ~Qualifies(calls[i]) /\ i \notin Ids(stream)
        /\ Qualifies(calls[j]) /\ ~calls[j].ret /\ j \in Ids(stream)
        /\ calls[k].record.is_context = PyFalse /\ calls[k].flushed = 1

\* ------------------------------------------------------------------------
\* C30: the context a QueueContextManager block opened is closed when the
\* block is left.  After the block's exit, normal or by exception, the
\* unit's Context is in the empty state, whatever calls of disable_loggers
\* and enable_loggers were made before or inside the block.
\* ------------------------------------------------------------------------
C30_Step ==
    NewOutcome("__exit__") =>
        tasklocal_context'[task_name(Last(outcomes').unit)] = NewContext

C30_BlockExitClosesContext == [][C30_Step]_vars

\* ------------------------------------------------------------------------
\* C31: suppress_logging is scoped.  While a suppress_logging block is
\* entered and not left the loggers of logger_list are disabled, and after
\* such a block is left, normally or by an exception raised inside it, the
\* loggers are enabled.
\* ------------------------------------------------------------------------
C31_During == Suppressing # {} => Elems(logger_list) \subseteq disabled

C31_Step == NewOutcome("suppress_logging") => Elems(logger_list') \cap disabled' = {}

C31_SuppressIsScoped == []C31_During /\ [][C31_Step]_vars

\* ------------------------------------------------------------------------
\* C32: contexts and the stream threshold affect only the stream.  At every
\* moment the log file holds exactly the records made so far whose message
\* is not the sentinel, each once, in the order of the logging calls and
\* with its own level and text, whatever the threshold is and whether the
\* record was printed, queued or suppressed on the stream.
\* ------------------------------------------------------------------------
Persisted(k) == ~k.dropped /\ k.record.msg # DO_NOT_LOG

RECURSIVE FileLines(_)
FileLines(cs) ==
    IF cs = <<>> THEN <<>>
    ELSE FileLines(SubSeq(cs, 1, Len(cs) - 1))
             \o (IF Persisted(Last(cs))
                 THEN <<[id |-> Last(cs).record.id, levelno |-> Last(cs).record.levelno,
                         message |-> Raw(Last(cs).record.msg),
                         exc_info |-> Last(cs).record.exc_info,
                         unit |-> Last(cs).unit]>>
                 ELSE <<>>)

C32_FileHasEveryRecord == logfile = FileLines(calls)

\* a record queued in a deferred context, a record below the threshold outside
\* of the stream, and a sentinel record: the file has the first two only
C32_Witness ==
    \E i, j, k \in DOMAIN calls :
        /\ i < j /\ j < k
        /\ calls[i].record.is_context = PyTrue /\ calls[i].record.defer_emit
        /\ Persisted(calls[i]) /\ Persisted(calls[j])
        /\ calls[j].record.is_context = None /\ ~calls[j].ret
        /\ calls[k].record.msg = DO_NOT_LOG
        /\ {i, j} \cap Ids(stream) = {}
        /\ Ids(logfile) = DOMAIN calls \ {k}

\* ------------------------------------------------------------------------
\* C33: errors2str only reads the failure registry.  A call leaves every
\* bucket as it is; what it returns is what a next call returns when no
\* handle_parsing_error call lies in between; and every failure recorded so
\* far, before or after an earlier call, is in the report of its bucket,
\* next to the other failures of the bucket.
\* ------------------------------------------------------------------------
\* a step of errors2str: no handle_parsing_error call and no logging call
ReportCall == handled' = handled /\ calls' = calls /\ outcomes' = outcomes

C33_Step ==
    ReportCall =>
        /\ categorized_errors' = categorized_errors
        /\ reports' = errors2str(categorized_errors')
        /\ \A i \in DOMAIN handled :
               handled[i].save_error =>
                   \E r \in DOMAIN reports' :
                       /\ ReportOf(reports'[r], TripleOf(handled[i]))
                       /\ handled[i].url \in Elems(reports'[r].urls)

C33_ReportsOnlyRead == [][C33_Step]_vars

\* the last call has returned two reports for the three failures recorded, and
\* the registry still holds all three
C33_Witness ==
    /\ Len(handled) = 3
    /\ \A i \in DOMAIN handled : handled[i].save_error
    /\ reports = errors2str(categorized_errors)
    /\ Len(reports) = 2
    /\ \E r \in DOMAIN reports : Len(reports[r].urls) = 2
    /\ SumOfSizes(categorized_errors, BucketKeys(categorized_errors)) = 3

\* ------------------------------------------------------------------------
\* C34: recipe2out with a Counts object.  For a recipe whose status is at
\* or below INCOMPLETE_ESSENTIAL it returns None and changes no counter; for
\* every other recipe it adds one to exactly one counter: parsed_partially
\* when the status is INCOMPLETE_ON_DISPLAY, parsed_successfully when it is
\* COMPLETE_ON_DISPLAY or COMPLETE.
\* ------------------------------------------------------------------------
C34_Step ==
    (NewOutcome("recipe2out") /\ Last(outcomes').has_counts) =>
        LET o == Last(outcomes')
            status == o.recipe.status
        IN  /\ o.before = counts
            /\ status <= INCOMPLETE_ESSENTIAL => o.ret = NoOutput /\ counts' = counts
            /\ status = INCOMPLETE_ON_DISPLAY =>
                   /\ o.ret # NoOutput
                   /\ counts' = [counts EXCEPT !.parsed_partially = @ + 1]
            /\ status \in {COMPLETE_ON_DISPLAY, COMPLETE} =>
                   /\ o.ret # NoOutput
                   /\ counts' = [counts EXCEPT !.parsed_successfully = @ + 1]

C34_CountsByStatus == [][C34_Step]_vars

====
